---- MODULE Spec2Model ----
(***************************************************************************)
(* Per-call pipeline engine of the voice relay (src/main.ts, v6.2.0):      *)
(* handleWebSocket with its socket handlers, processTurn,                  *)
(* streamElevenLabsTTS, generateLLMResponseStreaming and TurnManager.      *)
(*                                                                         *)
(* The runtime is a single-threaded event loop.  A handler runs without    *)
(* interruption up to its next network await; the continuation of an await *)
(* on an already settled promise runs before the next socket or network    *)
(* event.  Each action below is therefore one event (a carrier frame, a    *)
(* socket close, or the settling of one pending network await) together    *)
(* with everything the code does until every task is suspended again.      *)
(***************************************************************************)
EXTENDS Integers, Sequences, FiniteSets, TLC

\* ------------------------------------------------------------------ bounds
\* Spec: one call
MaxStarts == 1      \* start frames received in a session
MaxFrames == 3      \* media frames handled by the segmenter
MaxStops == 1       \* stop frames received in a session
MaxLLMReads == 1    \* body chunks with a delta of one LLM response
MaxTTSReads == 1    \* body chunks with audio of one TTS response
\* SpecTurns: one call, long enough for the segmenter to complete a second Turn
TurnsMaxFrames == 4
\* SpecRestart: a call whose carrier repeats the start frame
RestartMaxStarts == 2
RestartMaxFrames == 2
\* SpecSegmenter: frames of any level at irregular intervals
SegmenterMaxFrames == 5
\* SpecBlip: a short burst of voice, then silence
BlipVoicedFrames == 5
BlipTailFrames == 40
\* SpecHappy: silence, one utterance, silence
HappyLeadFrames == 50
HappyVoicedFrames == 100
HappyTailFrames == 40
\* SpecReopen: a session that receives a second start frame of either carrier
ReopenMaxFrames == 1
\* SpecMalformed: a call on which the carrier sends broken frames
MaxMalformed == 1
\* SpecPrompt: system prompts assembled from at most this many pieces
MaxPieces == 5
\* SpecStream: an LLM reply that arrives in several body chunks
StreamMaxLLMReads == 2
\* SpecRepack: a TTS body that arrives in chunks of uneven sizes
RepackMaxReads == 3
RepackMaxFrames == 1
\* SpecHangup: a call whose carrier repeats the stop frame
HangupMaxStops == 2
HangupMaxFrames == 2
\* SpecLive: the turns and TTS streams the fairness conditions range over
LiveMaxTurns == 2
LiveMaxStreams == 5
\* SpecDialog: a call of this many utterances of the caller
DialogTurns == 3

\* ------------------------------------------------------- program constants
CHUNK_SIZE == 160
BargeInThresholdDb == 0 - 35
SilenceThresholdDb == 0 - 40
MinTurnDurationMs == 300
DefaultSilenceDurationMs == 600
DefaultPrefixPaddingMs == 300
MaxSilenceDurationMs == 800
SamplesPerChunk == 160
SampleRate == 8000
FirstSentenceMinIndex == 10
FirstSentenceMinLength == 20
HistoryWindow == 4
RecentHistoryWindow == 6

\* null of `number | null` (silenceStartTime, turnStartTime, callStartTime)
NoTime == 0 - 1
\* null of `string | null` (streamSid, callSid, callLogId)
NULL == "null"

Min(a, b) == IF a <= b THEN a ELSE b

\* ------------------------------------------------------------------- text
\* A string is a sequence of one-character strings.
Rep(c, n) == [i \in 1..n |-> c]

IsSpace(c) == c \in {" ", "\n"}

RECURSIVE TrimStart(_)
TrimStart(s) == IF s # <<>> /\ IsSpace(Head(s)) THEN TrimStart(Tail(s)) ELSE s

RECURSIVE TrimEnd(_)
TrimEnd(s) ==
  IF s # <<>> /\ IsSpace(s[Len(s)]) THEN TrimEnd(SubSeq(s, 1, Len(s) - 1)) ELSE s

\* String.prototype.trim
\* Variant: a trim that removes nothing.
TrimNothing(s) == s

Trim(s) == TrimEnd(TrimStart(s))

\* String.prototype.startsWith
StartsWith(s, p) == Len(p) <= Len(s) /\ SubSeq(s, 1, Len(p)) = p

\* String.prototype.slice(n), 0-based n
SliceFrom(s, n) == SubSeq(s, n + 1, Len(s))

\* Array.prototype.slice(-n)
LastN(s, n) == IF Len(s) <= n THEN s ELSE SubSeq(s, Len(s) - n + 1, Len(s))

\* String.prototype.slice(a, b), 0-based, 0 <= a
Slice(s, a, b) == SubSeq(s, a + 1, Min(b, Len(s)))

\* String.prototype.toUpperCase, on the letters of the prompts
UpperChar(c) ==
  CASE c = "a" -> "A"
    [] c = "b" -> "B"
    [] c = "c" -> "C"
    [] c = "d" -> "D"
    [] c = "e" -> "E"
    [] c = "f" -> "F"
    [] c = "g" -> "G"
    [] c = "h" -> "H"
    [] c = "i" -> "I"
    [] c = "j" -> "J"
    [] c = "k" -> "K"
    [] c = "l" -> "L"
    [] c = "m" -> "M"
    [] c = "n" -> "N"
    [] c = "o" -> "O"
    [] c = "p" -> "P"
    [] c = "q" -> "Q"
    [] c = "r" -> "R"
    [] c = "s" -> "S"
    [] c = "t" -> "T"
    [] c = "u" -> "U"
    [] c = "v" -> "V"
    [] c = "w" -> "W"
    [] c = "x" -> "X"
    [] c = "y" -> "Y"
    [] c = "z" -> "Z"
    [] c = "ó" -> "Ó"
    [] c = "á" -> "Á"
    [] c = "é" -> "É"
    [] c = "í" -> "Í"
    [] c = "ú" -> "Ú"
    [] c = "ñ" -> "Ñ"
    [] OTHER -> c

ToUpperCase(s) == [i \in DOMAIN s |-> UpperChar(s[i])]

\* String.prototype.indexOf: 0-based index of the first occurrence, or -1
RECURSIVE IndexOfFrom(_, _, _)
IndexOfFrom(s, m, i) ==
  IF i + Len(m) > Len(s) THEN 0 - 1
  ELSE IF SubSeq(s, i + 1, i + Len(m)) = m THEN i
  ELSE IndexOfFrom(s, m, i + 1)

IndexOf(s, m) == IndexOfFrom(s, m, 0)

\* ------------------------------------------------ system prompt optimization
MAX_SYSTEM_PROMPT_CHARS == 32000
PERSONA_BUDGET == 4000
SCRIPT_BUDGET == 16000
RULES_BUDGET == 6000

scriptMarkers ==
  << <<"F", "L", "U", "J", "O", " ", "D", "E">>,
     <<"F", "L", "U", "J", "O", ":">>,
     <<"S", "C", "R", "I", "P", "T", ":">>,
     <<"P", "A", "S", "O", "S", ":">>,
     <<"P", "A", "S", "O", " ", "1">>,
     <<"#", "#", " ", "F", "l", "u", "j", "o">>,
     <<"#", "#", " ", "S", "c", "r", "i", "p", "t">>,
     <<"C", "O", "N", "V", "E", "R", "S", "A", "C", "I", "Ó", "N", ":">>,
     <<"G", "U", "I", "Ó", "N">> >>

rulesMarkers ==
  << <<"I", "M", "P", "O", "R", "T", "A", "N", "T", "E", ":">>,
     <<"R", "E", "S", "T", "R", "I", "C", "C", "I", "O", "N", "E", "S", ":">>,
     <<"R", "E", "G", "L", "A", "S", ":">>,
     <<"N", "U", "N", "C", "A", ":">>,
     <<"N", "O", " ", "D", "E", "B", "E", "S">>,
     <<"P", "R", "O", "H", "I", "B", "I", "D", "O">>,
     <<"L", "I", "N", "E", "A", "M", "I", "E", "N", "T", "O", "S">>,
     <<"D", "I", "R", "E", "C", "T", "R", "I", "C", "E", "S">> >>

\* prompt.toUpperCase().indexOf(marker.toUpperCase())
MarkerIndex(prompt, marker) == IndexOf(ToUpperCase(prompt), ToUpperCase(marker))

\* the loop over scriptMarkers, from marker k on, with scriptStart so far
RECURSIVE ScanScript(_, _, _)
ScanScript(prompt, k, scriptStart) ==
  IF k > Len(scriptMarkers) THEN scriptStart
  ELSE LET idx == MarkerIndex(prompt, scriptMarkers[k]) IN
       IF idx # 0 - 1 /\ (scriptStart = 0 - 1 \/ idx < scriptStart)
       THEN ScanScript(prompt, k + 1, idx)
       ELSE ScanScript(prompt, k + 1, scriptStart)

\* the loop over rulesMarkers, from marker k on, with rulesStart so far
RECURSIVE ScanRules(_, _, _, _)
ScanRules(prompt, k, scriptStart, rulesStart) ==
  IF k > Len(rulesMarkers) THEN rulesStart
  ELSE LET idx == MarkerIndex(prompt, rulesMarkers[k]) IN
       IF idx # 0 - 1 /\ (rulesStart = 0 - 1 \/ idx < rulesStart)
          /\ (scriptStart = 0 - 1 \/ idx > scriptStart)
       THEN ScanRules(prompt, k + 1, scriptStart, idx)
       ELSE ScanRules(prompt, k + 1, scriptStart, rulesStart)

\* a match of /\n##[^#]|\n---|\n===|\n\*\*\*/ begins at 0-based index i of s
BreakAt(s, i) ==
  /\ i + 4 <= Len(s)
  /\ s[i + 1] = "\n"
  /\ \/ s[i + 2] = "#" /\ s[i + 3] = "#" /\ s[i + 4] # "#"
     \/ \E c \in {"-", "=", "*"} : s[i + 2] = c /\ s[i + 3] = c /\ s[i + 4] = c

\* afterScript.match(...)?.index, -1 when there is no match
RECURSIVE BreakIndexFrom(_, _)
BreakIndexFrom(s, i) ==
  IF i + 4 > Len(s) THEN 0 - 1
  ELSE IF BreakAt(s, i) THEN i
  ELSE BreakIndexFrom(s, i + 1)

findSectionBoundaries(prompt) ==
  LET scriptStart == ScanScript(prompt, 1, 0 - 1)
      rulesStart == ScanRules(prompt, 1, scriptStart, 0 - 1)
      breakIndex == BreakIndexFrom(SliceFrom(prompt, scriptStart), 0)
      scriptEnd ==
        IF scriptStart # 0 - 1
        THEN IF rulesStart # 0 - 1 /\ rulesStart > scriptStart THEN rulesStart
             ELSE IF breakIndex > 0 THEN scriptStart + breakIndex
             ELSE Len(prompt)
        ELSE Len(prompt)
  IN [scriptStart |-> scriptStart, scriptEnd |-> scriptEnd, rulesStart |-> rulesStart]

ScriptHeader ==
  << "[", "S", "C", "R", "I", "P", "T", " ", "D", "E", " ", "C", "O", "N",
     "V", "E", "R", "S", "A", "C", "I", "Ó", "N", " ", "-", " ", "P", "R",
     "I", "O", "R", "I", "D", "A", "D", " ", "M", "Á", "X", "I", "M", "A",
     "]" >>

PersonaHeader ==
  << "[", "C", "O", "N", "T", "E", "X", "T", "O", " ", "Y", " ", "P", "E",
     "R", "S", "O", "N", "A", "]" >>

RulesHeader ==
  << "[", "R", "E", "G", "L", "A", "S", " ", "Y", " ", "R", "E", "S", "T",
     "R", "I", "C", "C", "I", "O", "N", "E", "S", "]" >>

TruncatedMark ==
  << "\n", "\n", "[", ".", ".", ".", " ", "t", "r", "u", "n", "c", "a",
     "d", "o", " ", ".", ".", ".", "]" >>

NL == << "\n" >>

optimizeSystemPrompt(prompt) ==
  IF prompt = <<>> THEN prompt
  ELSE
    LET b == findSectionBoundaries(prompt) IN
    IF b.scriptStart = 0 - 1
    THEN IF Len(prompt) <= MAX_SYSTEM_PROMPT_CHARS THEN prompt
         ELSE Slice(prompt, 0, MAX_SYSTEM_PROMPT_CHARS - 100) \o TruncatedMark
    ELSE
      LET persona == Trim(Slice(prompt, 0, b.scriptStart))
          script == Trim(Slice(prompt, b.scriptStart, b.scriptEnd))
          rules == IF b.rulesStart # 0 - 1 THEN Trim(SliceFrom(prompt, b.rulesStart))
                   ELSE <<>>
          truncatedPersona == Slice(persona, 0, PERSONA_BUDGET)
          truncatedScript == Slice(script, 0, SCRIPT_BUDGET)
          truncatedRules == Slice(rules, 0, RULES_BUDGET)
      IN Trim(ScriptHeader \o NL \o truncatedScript \o NL \o NL
                \o PersonaHeader \o NL \o truncatedPersona \o NL \o NL
                \o (IF truncatedRules # <<>> THEN RulesHeader \o NL \o truncatedRules
                    ELSE <<>>))

truncateSystemPrompt(prompt) == optimizeSystemPrompt(prompt)

\* ----------------------------------------------------------- inputs drawn
\* rmsDb of an inbound 20 ms frame: silent, voiced below the barge-in
\* threshold, loud.
FrameDbs == {0 - 50, 0 - 38, 0 - 30}
\* milliseconds of wall clock between two consecutive media frames
FrameGaps == {600}
\* start frames: Twilio style and Telnyx style
TwilioStart ==
  [stream_id |-> NULL, streamSid |-> "MZ1", callSid |-> "CA1", call_control_id |-> NULL,
   call_log_id |-> NULL]
TelnyxStart ==
  [stream_id |-> "tx1", streamSid |-> NULL, callSid |-> NULL, call_control_id |-> "cc1",
   call_log_id |-> NULL]
StartFrames == {TwilioStart, TelnyxStart}
GreetingText == <<"h", "o", "l", "a">>
\* agent records the config endpoint can return
AgentRecords ==
  { [greeting |-> GreetingText, silenceDurationMs |-> 0, prefixPaddingMs |-> 20] }
\* URL parameters of the upgrade request
UrlCallLogIds == {"log1"}
UrlProviders == {"twilio", "telnyx"}
\* transcripts the STT provider can return
Transcripts == { <<"s", "i">>, <<" ">> }
\* deltas of the LLM stream: a first sentence followed by more text, and a
\* short text without a terminator
DeltaSentence == Rep("a", 19) \o <<".">>
DeltaTail == <<" ", "b">>
Deltas == {DeltaSentence \o DeltaTail, DeltaTail}
\* sizes in bytes of the TTS provider's body chunks
TTSChunkSizes == {400}

\* inbound messages the handler cannot use: text that is not JSON, a media
\* frame without `media`, a media frame whose `media` has no `payload`
MalformedFrames == {"notJson", "noMedia", "noPayload"}

\* pieces of a system prompt: a rules marker, a script marker in upper and in
\* lower case, two texts, a line break and a section break
PromptPieces ==
  { <<"R", "E", "G", "L", "A", "S", ":">>, <<"F", "L", "U", "J", "O", ":">>,
    <<"f", "l", "u", "j", "o", ":">>, <<" ", "X">>, <<" ", "Y">>, <<"\n">>,
    <<"\n", "-", "-", "-">> }

\* the prompts made of at most n pieces
RECURSIVE PromptsOf(_)
PromptsOf(n) ==
  IF n = 0 THEN { <<>> }
  ELSE LET shorter == PromptsOf(n - 1) IN
       shorter \cup { q \o piece : q \in shorter, piece \in PromptPieces }

Prompts == PromptsOf(MaxPieces)

\* deltas of SpecStream: also a short opening sentence, whose terminator
\* stands before index FirstSentenceMinIndex
DeltaShort == <<"H", "o", "l", "a", ".", " ">>
StreamDeltas == Deltas \cup {DeltaShort, DeltaSentence}
\* sizes in bytes of the TTS body chunks of SpecRepack: below, at and above
\* the size of a carrier frame, and a multiple of it
RepackChunkSizes == {1, 159, 160, 161, 320, 400}

\* duration of one carrier frame: samplesPerChunk samples at sampleRate
FrameMs == (SamplesPerChunk * 1000) \div SampleRate

\* arrival intervals of SpecSegmenter: back to back, or after a gap
SegmenterGaps == {FrameMs, 300}

\* an agent record that keeps the default segmenter settings
DefaultVadRecords ==
  { [greeting |-> GreetingText, silenceDurationMs |-> DefaultSilenceDurationMs,
     prefixPaddingMs |-> DefaultPrefixPaddingMs] }

\* n consecutive frames of level db
Frames(n, db) == [i \in 1..n |-> db]

BlipScript == Frames(BlipVoicedFrames, 0 - 38) \o Frames(BlipTailFrames, 0 - 50)

HappyScript ==
  Frames(HappyLeadFrames, 0 - 50) \o Frames(HappyVoicedFrames, 0 - 20)
    \o Frames(HappyTailFrames, 0 - 50)

\* transcripts of SpecDialog
DialogTranscripts == { <<"s", "i">>, <<"n", "o">> }

\* one utterance: a frame of voice below the barge-in threshold, then a
\* quiet frame that ends the Turn
Utterance == << 0 - 38, 0 - 50 >>

RECURSIVE Utterances(_)
Utterances(n) == IF n = 0 THEN <<>> ELSE Utterance \o Utterances(n - 1)

DialogScript == Utterances(DialogTurns)

\* the frames of SpecLive: an utterance, then a loud frame and a quiet one
LiveScript == Utterance \o << 0 - 30, 0 - 50 >>

\* agent records of SpecPadding: no pre-roll, one frame, two frames
PaddingRecords ==
  { [greeting |-> <<>>, silenceDurationMs |-> 0, prefixPaddingMs |-> ms] :
      ms \in {0, FrameMs, 2 * FrameMs} }

\* ------------------------------------------------------------------ state
VARIABLES
  DEEPGRAM_API_KEY,   \* Deno.env.get("DEEPGRAM_API_KEY"); NULL when not set
  streamSid, callSid, provider, callLogId, callStartTime, agentConfig,
  turnManager, twilioPlaybackToken, isProcessingTurn, isTTSPlaying,
  isCallEnded, conversationHistory, conversationTranscript, metrics,
  systemPrompt,     \* argument of generateLLMResponseStreaming
  truncatedPrompt,  \* its local: << truncateSystemPrompt(systemPrompt) >>, <<>> before
  readyState,   \* socket.readyState
  now,          \* Date.now()
  starts,       \* invocations of the start branch of socket.onmessage
  turns,        \* invocations of processTurn that passed the entry guard
  streams,      \* invocations of streamElevenLabsTTS that sent a request
  sent,         \* frames handed to socket.send, in order
  reports,      \* call reports POSTed by finalizeCall
  llmRequests,  \* messages of each chat-completion request
  events        \* counters of handler events (frames in, barge-ins, drops)

vars ==
  << DEEPGRAM_API_KEY, systemPrompt, truncatedPrompt, streamSid, callSid, provider, callLogId, callStartTime, agentConfig,
     turnManager, twilioPlaybackToken, isProcessingTurn, isTTSPlaying,
     isCallEnded, conversationHistory, conversationTranscript, metrics,
     readyState, now, starts, turns, streams, sent, reports, llmRequests,
     events >>

\* The state as one record, so that a handler is a function from state to
\* state and handlers compose the way the code calls them.
World ==
  [ DEEPGRAM_API_KEY |-> DEEPGRAM_API_KEY, streamSid |-> streamSid, callSid |-> callSid, provider |-> provider,
    callLogId |-> callLogId, callStartTime |-> callStartTime,
    agentConfig |-> agentConfig, turnManager |-> turnManager,
    twilioPlaybackToken |-> twilioPlaybackToken,
    isProcessingTurn |-> isProcessingTurn, isTTSPlaying |-> isTTSPlaying,
    isCallEnded |-> isCallEnded, conversationHistory |-> conversationHistory,
    conversationTranscript |-> conversationTranscript, metrics |-> metrics,
    readyState |-> readyState, now |-> now, starts |-> starts,
    turns |-> turns, streams |-> streams, sent |-> sent,
    reports |-> reports, llmRequests |-> llmRequests, events |-> events ]

Commit(result) ==
  \E w \in {result} :
    /\ DEEPGRAM_API_KEY' = w.DEEPGRAM_API_KEY
    /\ streamSid' = w.streamSid
    /\ callSid' = w.callSid
    /\ provider' = w.provider
    /\ callLogId' = w.callLogId
    /\ callStartTime' = w.callStartTime
    /\ agentConfig' = w.agentConfig
    /\ turnManager' = w.turnManager
    /\ twilioPlaybackToken' = w.twilioPlaybackToken
    /\ isProcessingTurn' = w.isProcessingTurn
    /\ isTTSPlaying' = w.isTTSPlaying
    /\ isCallEnded' = w.isCallEnded
    /\ conversationHistory' = w.conversationHistory
    /\ conversationTranscript' = w.conversationTranscript
    /\ metrics' = w.metrics
    /\ readyState' = w.readyState
    /\ now' = w.now
    /\ starts' = w.starts
    /\ turns' = w.turns
    /\ streams' = w.streams
    /\ sent' = w.sent
    /\ reports' = w.reports
    /\ llmRequests' = w.llmRequests
    /\ events' = w.events
    /\ UNCHANGED << systemPrompt, truncatedPrompt >>

\* ------------------------------------------------------------ TurnManager
CalculateRmsDb(pcm) == pcm.db

Truthy(t) == t # NoTime /\ t # 0

\* Math.ceil(a / b) for a >= 0, b > 0
CeilDiv(a, b) == (a + b - 1) \div b

\* Variant: a segmenter that accepts a Turn of any length.
NewTurnManagerNoMinimum(config) ==
  [ config |-> [config EXCEPT !.minTurnDurationMs = 0],
    pcmChunks |-> <<>>,
    prefixBuffer |-> <<>>,
    isUserSpeaking |-> FALSE,
    silenceStartTime |-> NoTime,
    turnStartTime |-> NoTime,
    maxPrefixChunks |->
      CeilDiv(config.prefixBufferMs * config.sampleRate, SamplesPerChunk * 1000),
    totalChunksReceived |-> 0,
    totalVoiceChunks |-> 0 ]

NewTurnManager(config) ==
  [ config |-> config,
    pcmChunks |-> <<>>,
    prefixBuffer |-> <<>>,
    isUserSpeaking |-> FALSE,
    silenceStartTime |-> NoTime,
    turnStartTime |-> NoTime,
    maxPrefixChunks |->
      CeilDiv(config.prefixBufferMs * config.sampleRate, SamplesPerChunk * 1000),
    totalChunksReceived |-> 0,
    totalVoiceChunks |-> 0 ]

\* Variant: a reset that keeps the two times.
ResetTurnKeepsTimes(tm) ==
  [tm EXCEPT !.isUserSpeaking = FALSE, !.pcmChunks = <<>>]

\* Variant: a reset that keeps the turn buffer.
ResetTurnKeepsBuffer(tm) ==
  [tm EXCEPT !.isUserSpeaking = FALSE, !.silenceStartTime = NoTime,
             !.turnStartTime = NoTime]

\* The reset both finalizing branches of processChunk perform.
ResetTurn(tm) ==
  [tm EXCEPT !.isUserSpeaking = FALSE, !.silenceStartTime = NoTime,
             !.turnStartTime = NoTime, !.pcmChunks = <<>>]

\* processChunk at time t: the new segmenter state and the TurnResult
\* (<<>> for null).
ProcessChunk(tm, pcm, t) ==
  LET hasVoice == CalculateRmsDb(pcm) >= tm.config.silenceThresholdDb
      pushed == Append(tm.prefixBuffer, pcm)
      prefix == IF Len(pushed) > tm.maxPrefixChunks THEN Tail(pushed) ELSE pushed
      tm1 == [tm EXCEPT !.totalChunksReceived = @ + 1, !.prefixBuffer = prefix]
  IN
  IF hasVoice
  THEN
    LET tm2 == [tm1 EXCEPT !.totalVoiceChunks = @ + 1] IN
    IF ~tm.isUserSpeaking
    THEN [ tm |-> [tm2 EXCEPT !.isUserSpeaking = TRUE, !.silenceStartTime = NoTime,
                              !.turnStartTime = t, !.pcmChunks = prefix],
           result |-> <<>> ]
    ELSE [ tm |-> [tm2 EXCEPT !.pcmChunks = Append(@, pcm)], result |-> <<>> ]
  ELSE
    IF tm.isUserSpeaking
    THEN
      LET chunks == Append(tm.pcmChunks, pcm)
          silenceStart == IF ~Truthy(tm.silenceStartTime) THEN t ELSE tm.silenceStartTime
          silenceDuration == t - silenceStart
          turnDuration == IF Truthy(tm.turnStartTime) THEN t - tm.turnStartTime ELSE 0
          tm2 == [tm1 EXCEPT !.pcmChunks = chunks, !.silenceStartTime = silenceStart]
      IN
      IF silenceDuration >= tm.config.silenceDurationMs
      THEN
        IF turnDuration >= tm.config.minTurnDurationMs /\ Len(chunks) > 0
        THEN [ tm |-> ResetTurn(tm2),
               result |-> << [type |-> "turn_complete", pcmBuffer |-> chunks,
                              durationMs |-> turnDuration] >> ]
        ELSE [ tm |-> ResetTurn(tm2), result |-> <<>> ]
      ELSE [ tm |-> tm2, result |-> <<>> ]
    ELSE [ tm |-> tm1, result |-> <<>> ]

\* Variant: the array is replaced by the new item.
PushReplacing(arr, item) == << item >>

\* Array.prototype.push on conversationHistory and conversationTranscript
Push(arr, item) == Append(arr, item)

\* ------------------------------------------------------- outbound frames
NoPayload == [stream |-> 0, off |-> 0, len |-> 0]

SendToCaller(w, msg) ==
  IF w.readyState # "OPEN" \/ w.isCallEnded THEN w
  ELSE [w EXCEPT !.sent = Append(@, msg)]

\* Variant: media frames always carry the key streamSid.
SendAudioToCallerOneKey(w, payload) ==
  IF w.streamSid = NULL \/ w.isCallEnded THEN w
  ELSE SendToCaller(w, [event |-> "media", key |-> "streamSid",
                        sid |-> w.streamSid, payload |-> payload])

\* payload: the bytes off .. off+len-1 of the body of TTS stream `stream`
SendAudioToCaller(w, payload) ==
  IF w.streamSid = NULL \/ w.isCallEnded THEN w
  ELSE IF w.provider = "telnyx"
       THEN SendToCaller(w, [event |-> "media", key |-> "stream_id",
                             sid |-> w.streamSid, payload |-> payload])
       ELSE SendToCaller(w, [event |-> "media", key |-> "streamSid",
                             sid |-> w.streamSid, payload |-> payload])

ClearCallerAudio(w) ==
  IF w.streamSid = NULL \/ w.isCallEnded THEN w
  ELSE IF w.provider = "telnyx"
       THEN SendToCaller(w, [event |-> "clear", key |-> "stream_id",
                             sid |-> w.streamSid, payload |-> NoPayload])
       ELSE SendToCaller(w, [event |-> "clear", key |-> "streamSid",
                             sid |-> w.streamSid, payload |-> NoPayload])

\* ---------------------------------------------------- streamElevenLabsTTS
\* The entry check; TRUE when the call returns without a request.
TTSSkipped(w) == w.isCallEnded \/ w.readyState # "OPEN"

\* The check at the top of the read loop.
TTSInterrupted(w, currentToken) ==
  currentToken # w.twilioPlaybackToken \/ w.isCallEnded \/ w.readyState # "OPEN"

\* The condition guarding each send of the stream.
TTSMaySend(w) == w.streamSid # NULL /\ w.readyState = "OPEN" /\ ~w.isCallEnded

\* The locals of a streamElevenLabsTTS invocation when its request is sent.
NewStream(text, currentToken, kind, owner) ==
  [ kind |-> kind, owner |-> owner, text |-> text, currentToken |-> currentToken,
    pc |-> "fetch", buffer |-> [off |-> 0, len |-> 0], reads |-> 0, chunksSent |-> 0 ]

\* Call of streamElevenLabsTTS up to its first await: the request is sent
\* unless the entry check returns.  kind and owner name the caller that
\* awaits the returned promise.
StreamElevenLabsTTS(w, text, currentToken, kind, owner) ==
  IF TTSSkipped(w) THEN w
  ELSE [w EXCEPT !.streams = Append(@, NewStream(text, currentToken, kind, owner))]

\* ------------------------------------------------------------ processTurn
\* The interruption check of processTurn and the abort check it passes to
\* the LLM stream.
TurnInterrupted(w, currentPlaybackToken) ==
  currentPlaybackToken # w.twilioPlaybackToken \/ w.isCallEnded

\* What a running turn remembers of the conversation as it was when
\* processTurn was called (history only, kept while the turn runs).
NoEntry == [history |-> <<>>, transcript |-> <<>>]

\* The locals of a processTurn invocation when it is called.
NewTurn(currentPlaybackToken, turnResult) ==
  [ pc |-> "stt", currentPlaybackToken |-> currentPlaybackToken,
    pcmBuffer |-> turnResult.pcmBuffer, userText |-> <<>>, fullText |-> <<>>,
    firstSentenceSent |-> FALSE, ttsStarted |-> FALSE, firstSpokenText |-> <<>>,
    firstStream |-> 0, llmReads |-> 0, atEntry |-> NoEntry ]

\* Variant: an exit that leaves isProcessingTurn set.
FinallyTurnKeepsLock(w, t) ==
  [w EXCEPT !.isTTSPlaying = FALSE,
            !.turns[t] = [NewTurn(@.currentPlaybackToken, @) EXCEPT !.pc = "done"]]

\* Every exit of processTurn: the early returns clear both flags and the
\* finally block clears them again.  The invocation's locals are gone; its
\* captured token and its argument stay on record.
FinallyTurn(w, t) ==
  [w EXCEPT !.isProcessingTurn = FALSE, !.isTTSPlaying = FALSE,
            !.turns[t] = [NewTurn(@.currentPlaybackToken, @) EXCEPT !.pc = "done"]]

\* Variant: the second request always speaks the whole reply.
RemainderWholeReply(assistantText, firstSpokenText) ==
  Trim(assistantText)

\* Text of the second TTS request after an early start.
Remainder(assistantText, firstSpokenText) ==
  IF StartsWith(assistantText, firstSpokenText)
  THEN Trim(SliceFrom(assistantText, Len(firstSpokenText)))
  ELSE Trim(assistantText)

\* Variant: the remainder is requested without looking at the token.
AfterFirstTTSUnchecked(w, t) ==
  LET tr == w.turns[t]
      remainder == Remainder(tr.fullText, tr.firstSpokenText)
      w1 == StreamElevenLabsTTS(w, remainder, tr.currentPlaybackToken, "reply", t)
  IN
  IF Len(remainder) > 0 /\ Len(w1.streams) > Len(w.streams)
  THEN [w1 EXCEPT !.turns[t].pc = "awaitTTS"]
  ELSE FinallyTurn(w, t)

\* processTurn after `await firstTtsPromise`.
AfterFirstTTS(w, t) ==
  LET tr == w.turns[t] IN
  IF tr.currentPlaybackToken = w.twilioPlaybackToken /\ ~w.isCallEnded
  THEN
    LET remainder == Remainder(tr.fullText, tr.firstSpokenText) IN
    IF Len(remainder) > 0
    THEN LET w1 == StreamElevenLabsTTS(w, remainder, tr.currentPlaybackToken, "reply", t) IN
         IF Len(w1.streams) > Len(w.streams)
         THEN [w1 EXCEPT !.turns[t].pc = "awaitTTS"]
         ELSE FinallyTurn(w1, t)
    ELSE FinallyTurn(w, t)
  ELSE FinallyTurn(w, t)

\* processTurn after generateLLMResponseStreaming has returned assistantText.
AfterLLM(w, t) ==
  LET tr == w.turns[t]
      assistantText == tr.fullText
      w1 == w
  IN
  IF Trim(assistantText) = <<>> THEN FinallyTurn(w1, t)
  ELSE IF TurnInterrupted(w1, tr.currentPlaybackToken)
  THEN FinallyTurn(w1, t)
  ELSE
    LET w2 == [w1 EXCEPT
                 !.conversationTranscript =
                    Push(@, [role |-> "agent", text |-> assistantText]),
                 !.conversationHistory =
                    Push(@, [role |-> "assistant", content |-> assistantText])]
    IN
    IF ~tr.ttsStarted
    THEN LET w3 == StreamElevenLabsTTS(w2, assistantText, tr.currentPlaybackToken, "reply", t) IN
         IF Len(w3.streams) > Len(w2.streams)
         THEN [w3 EXCEPT !.turns[t].pc = "awaitTTS"]
         ELSE FinallyTurn(w3, t)
    ELSE IF tr.firstStream # 0 /\ w2.streams[tr.firstStream].pc # "done"
         THEN [w2 EXCEPT !.turns[t].pc = "awaitFirst"]
         ELSE AfterFirstTTS(w2, t)

\* Variant: a callback that does not look at the token or at isCallEnded.
OnFirstSentenceUnchecked(w, t, firstSentence) ==
  LET tr == w.turns[t] IN
  IF ~tr.ttsStarted
  THEN LET w1 == StreamElevenLabsTTS(w, firstSentence, tr.currentPlaybackToken, "first", t) IN
       [w1 EXCEPT !.turns[t].ttsStarted = TRUE,
                  !.turns[t].firstSpokenText = firstSentence,
                  !.turns[t].firstStream =
                     IF Len(w1.streams) > Len(w.streams) THEN Len(w1.streams) ELSE 0]
  ELSE w

\* The onFirstSentence callback processTurn passes to the LLM stream.
OnFirstSentence(w, t, firstSentence) ==
  LET tr == w.turns[t] IN
  IF ~tr.ttsStarted /\ tr.currentPlaybackToken = w.twilioPlaybackToken /\ ~w.isCallEnded
  THEN LET w1 == StreamElevenLabsTTS(w, firstSentence, tr.currentPlaybackToken, "first", t) IN
       [w1 EXCEPT !.turns[t].ttsStarted = TRUE,
                  !.turns[t].firstSpokenText = firstSentence,
                  !.turns[t].firstStream =
                     IF Len(w1.streams) > Len(w.streams) THEN Len(w1.streams) ELSE 0]
  ELSE w

\* --------------------------------------------- generateLLMResponseStreaming
IsTerminator(c) == c \in {".", "!", "?"}

\* fullText.match(/[.!?]/)?.index, 0-based; -1 when there is no match
RECURSIVE MatchIndexFrom(_, _)
MatchIndexFrom(s, i) ==
  IF i > Len(s) THEN 0 - 1
  ELSE IF IsTerminator(s[i]) THEN i - 1
  ELSE MatchIndexFrom(s, i + 1)

EndMatchIndex(fullText) == MatchIndexFrom(fullText, 1)

\* One delta of the stream: accumulate and try the first-sentence early start.
ProcessDelta(w, t, delta) ==
  IF delta = <<>> THEN w
  ELSE
    LET fullText == w.turns[t].fullText \o delta
        w1 == [w EXCEPT !.turns[t].fullText = fullText]
        index == EndMatchIndex(fullText)
        firstSentence == Trim(SubSeq(fullText, 1, index + 1))
    IN
    IF ~w.turns[t].firstSentenceSent /\ index # 0 - 1 /\ index >= FirstSentenceMinIndex
       /\ Len(firstSentence) >= FirstSentenceMinLength
    THEN [OnFirstSentence(w1, t, firstSentence) EXCEPT !.turns[t].firstSentenceSent = TRUE]
    ELSE w1

\* Top of the read loop: abort and return, or await the next read.
LLMLoop(w, t) ==
  IF TurnInterrupted(w, w.turns[t].currentPlaybackToken)
  THEN AfterLLM(w, t)
  ELSE [w EXCEPT !.turns[t].pc = "llmRead"]

\* detectFlowState: '' (<<>>) when the history it is given holds no user
\* message, else the block of the template chosen by the number of user
\* messages in it; `paso` and `quote` are the values interpolated into the
\* template (the quote is the last user message).
detectFlowState(history) ==
  LET IsUser(m) == m.role = "user"
      userMessages == SelectSeq(history, IsUser)
      turnCount == Len(userMessages)
      lastUserMessage == IF turnCount = 0 THEN <<>> ELSE userMessages[turnCount].content
  IN
  IF turnCount = 0 THEN <<>>
  ELSE IF turnCount = 1
  THEN << [template |-> "PASO 2", paso |-> 2, quote |-> <<>>] >>
  ELSE IF turnCount = 2
  THEN << [template |-> "PASO 3", paso |-> 3, quote |-> lastUserMessage] >>
  ELSE << [template |-> "PASO N", paso |-> turnCount + 1, quote |-> lastUserMessage] >>

\* Messages of the request: the history argument is conversationHistory.slice(-4),
\* of which the function keeps slice(-6).
RecentHistory(history) == LastN(LastN(history, HistoryWindow), RecentHistoryWindow)

\* Variant: the transcript of the user is kept in the history only.
AfterSTTHistoryOnly(w, t, userText) ==
  LET tr == w.turns[t]
      w1 == [w EXCEPT !.metrics.sttChunks = @ + Len(tr.pcmBuffer)]
  IN
  IF Trim(userText) = <<>> THEN FinallyTurn(w1, t)
  ELSE IF TurnInterrupted(w1, tr.currentPlaybackToken)
  THEN FinallyTurn(w1, t)
  ELSE
    LET history == Push(w1.conversationHistory, [role |-> "user", content |-> userText]) IN
    [w1 EXCEPT
       !.conversationHistory = history,
       !.llmRequests = Append(@, [turn |-> t, recentHistory |-> RecentHistory(history),
                                  flowState |-> detectFlowState(RecentHistory(history)),
                                  userMessage |-> userText]),
       !.turns[t].userText = userText,
       !.turns[t].pc = "llmFetch"]

\* processTurn after transcribeAudio has returned userText.
AfterSTT(w, t, userText) ==
  LET tr == w.turns[t]
      w1 == [w EXCEPT !.metrics.sttChunks = @ + Len(tr.pcmBuffer)]
  IN
  IF Trim(userText) = <<>> THEN FinallyTurn(w1, t)
  ELSE IF TurnInterrupted(w1, tr.currentPlaybackToken)
  THEN FinallyTurn(w1, t)
  ELSE
    LET history == Push(w1.conversationHistory, [role |-> "user", content |-> userText]) IN
    [w1 EXCEPT
       !.conversationTranscript = Push(@, [role |-> "user", text |-> userText]),
       !.conversationHistory = history,
       !.llmRequests = Append(@, [turn |-> t, recentHistory |-> RecentHistory(history),
                                  flowState |-> detectFlowState(RecentHistory(history)),
                                  userMessage |-> userText]),
       !.turns[t].userText = userText,
       !.turns[t].pc = "llmFetch"]

\* Variant: the entry does not take the lock.
TurnEntryFlagsUnlocked == [isProcessingTurn |-> FALSE, isTTSPlaying |-> TRUE]

\* Flags set when processTurn passes its entry guard.
TurnEntryFlags == [isProcessingTurn |-> TRUE, isTTSPlaying |-> TRUE]

\* transcribeAudio throws before any request when the key is not set.
TranscribeAudioThrows(w) == w.DEEPGRAM_API_KEY = NULL

\* Call of processTurn up to the STT request; when transcribeAudio throws,
\* the catch and finally blocks run before the next event.
ProcessTurn(w, turnResult) ==
  IF w.isProcessingTurn \/ w.isCallEnded THEN w
  ELSE
    LET w1 ==
          [w EXCEPT
             !.isProcessingTurn = TurnEntryFlags.isProcessingTurn,
             !.isTTSPlaying = TurnEntryFlags.isTTSPlaying,
             !.twilioPlaybackToken = @ + 1,
             !.metrics.turnsCount = @ + 1,
             !.turns = Append(@, [NewTurn(w.twilioPlaybackToken + 1, turnResult) EXCEPT
                                    !.atEntry = [history |-> w.conversationHistory,
                                                 transcript |-> w.conversationTranscript]])]
    IN IF TranscribeAudioThrows(w1) THEN FinallyTurn(w1, Len(w1.turns)) ELSE w1

\* ----------------------------------------- streamElevenLabsTTS, continued
\* Variant: the promise of a first-sentence stream never settles.
StreamReturnedNoResume(w, s) ==
  LET st == w.streams[s]
      w1 == [w EXCEPT !.streams[s] =
                         [NewStream(<<>>, st.currentToken, st.kind, st.owner)
                            EXCEPT !.pc = "done", !.reads = st.reads]]
  IN
  CASE st.kind = "greeting" ->
         [w1 EXCEPT !.isTTSPlaying = FALSE, !.starts[st.owner].pc = "done"]
    [] st.kind = "first" -> w1
    [] st.kind = "reply" -> FinallyTurn(w1, st.owner)

\* The promise of stream s settles: the caller awaiting it continues.  Of the
\* invocation's locals only the number of body chunks it read stays on record.
StreamReturned(w, s) ==
  LET st == w.streams[s]
      w1 == [w EXCEPT !.streams[s] =
                         [NewStream(<<>>, st.currentToken, st.kind, st.owner)
                            EXCEPT !.pc = "done", !.reads = st.reads]]
  IN
  CASE st.kind = "greeting" ->
         [w1 EXCEPT !.isTTSPlaying = FALSE, !.starts[st.owner].pc = "done"]
    [] st.kind = "first" ->
         IF w1.turns[st.owner].pc = "awaitFirst" THEN AfterFirstTTS(w1, st.owner) ELSE w1
    [] st.kind = "reply" -> FinallyTurn(w1, st.owner)

\* Top of the read loop: return when interrupted, else await the next read.
TTSLoop(w, s) ==
  IF TTSInterrupted(w, w.streams[s].currentToken)
  THEN StreamReturned(w, s)
  ELSE [w EXCEPT !.streams[s].pc = "read"]

\* The inner loop that cuts CHUNK_SIZE frames off the buffer and sends them.
RECURSIVE DrainBuffer(_, _)
DrainBuffer(w, s) ==
  LET b == w.streams[s].buffer IN
  IF b.len >= CHUNK_SIZE
  THEN
    LET w1 == [w EXCEPT !.streams[s].buffer =
                           [off |-> b.off + CHUNK_SIZE, len |-> b.len - CHUNK_SIZE]]
        w2 == IF TTSMaySend(w1)
              THEN [SendAudioToCaller(w1, [stream |-> s, off |-> b.off, len |-> CHUNK_SIZE])
                      EXCEPT !.streams[s].chunksSent = @ + 1]
              ELSE w1
    IN DrainBuffer(w2, s)
  ELSE w

\* Variant: the bytes left in the buffer at the end of the body are not sent.
SendRemainingDropped(w, s) == w

\* The send of the remaining bytes after the body has ended.
SendRemaining(w, s) ==
  LET b == w.streams[s].buffer IN
  IF b.len > 0 /\ TTSMaySend(w)
  THEN [SendAudioToCaller(w, [stream |-> s, off |-> b.off, len |-> b.len])
          EXCEPT !.streams[s].chunksSent = @ + 1]
  ELSE w

\* The response of the TTS request arrives.
TTSFetched(w, s, ok) ==
  IF ~ok THEN StreamReturned(w, s)
  ELSE TTSLoop([w EXCEPT !.metrics.ttsCharacters = @ + Len(w.streams[s].text)], s)

\* reader.read() resolves with a body chunk of n bytes.
TTSReadValue(w, s, n) ==
  LET st == w.streams[s]
      w1 == [w EXCEPT !.streams[s].reads = @ + 1,
                      !.streams[s].buffer = [off |-> st.buffer.off, len |-> st.buffer.len + n]]
  IN TTSLoop(DrainBuffer(w1, s), s)

\* reader.read() resolves with done.
TTSReadEnd(w, s) == StreamReturned(SendRemaining(w, s), s)

\* ------------------------------------- generateLLMResponseStreaming, steps
LLMFetched(w, t, ok) ==
  IF ~ok THEN FinallyTurn(w, t) ELSE LLMLoop(w, t)

LLMReadValue(w, t, delta) ==
  LLMLoop(ProcessDelta([w EXCEPT !.turns[t].llmReads = @ + 1], t, delta), t)

LLMReadEnd(w, t) == AfterLLM(w, t)

\* ---------------------------------------------------------- loadAgentConfig
DefaultConfig ==
  [ greeting |-> <<>>, silenceDurationMs |-> DefaultSilenceDurationMs,
    prefixPaddingMs |-> DefaultPrefixPaddingMs ]

LoadedConfig(data) ==
  [ greeting |-> data.greeting,
    silenceDurationMs |-> Min(data.silenceDurationMs, MaxSilenceDurationMs),
    prefixPaddingMs |-> data.prefixPaddingMs ]

\* ---------------------------------------------------------- socket handlers
\* a || b on `string | null`
Or(a, b) == IF a # NULL THEN a ELSE b

\* Variant: a start branch that builds the segmenter before the config load.
OnStartWithSegmenter(w, data) ==
  [w EXCEPT !.provider = "twilio", !.streamSid = data.streamSid,
            !.callSid = data.callSid, !.callStartTime = w.now,
            !.callLogId = Or(w.callLogId, data.call_log_id),
            !.starts = Append(@, [pc |-> "config", frame |-> data]),
            !.turnManager = << NewTurnManager(
                [ silenceThresholdDb |-> SilenceThresholdDb,
                  silenceDurationMs |-> 0,
                  prefixBufferMs |-> DefaultPrefixPaddingMs,
                  minTurnDurationMs |-> MinTurnDurationMs,
                  sampleRate |-> SampleRate ]) >>]

\* case 'start', up to the await of loadAgentConfig
OnStart(w, data) ==
  LET telnyx == data.stream_id # NULL \/ data.call_control_id # NULL
      w1 == IF telnyx
            THEN [w EXCEPT !.provider = "telnyx", !.streamSid = data.stream_id,
                           !.callSid = data.call_control_id]
            ELSE [w EXCEPT !.provider = "twilio", !.streamSid = data.streamSid,
                           !.callSid = data.callSid]
  IN [w1 EXCEPT !.callStartTime = w.now,
                !.callLogId = Or(w.callLogId, data.call_log_id),
                !.starts = Append(@, [pc |-> "config", frame |-> data])]

\* Variant: a start branch that builds no segmenter for a config without greeting.
OnConfigGreetingOnly(w, i, config) ==
  IF config.greeting # <<>>
  THEN
    LET w2 == [w EXCEPT
                 !.agentConfig = config,
                 !.turnManager = << NewTurnManager(
                     [ silenceThresholdDb |-> SilenceThresholdDb,
                       silenceDurationMs |-> config.silenceDurationMs,
                       prefixBufferMs |-> config.prefixPaddingMs,
                       minTurnDurationMs |-> MinTurnDurationMs,
                       sampleRate |-> SampleRate ]) >>,
                 !.isTTSPlaying = TRUE,
                 !.conversationTranscript =
                    Push(@, [role |-> "agent", text |-> config.greeting]),
                 !.conversationHistory =
                    Push(@, [role |-> "assistant", content |-> config.greeting]),
                 !.metrics.turnsCount = @ + 1]
        w3 == StreamElevenLabsTTS(w2, config.greeting, w2.twilioPlaybackToken, "greeting", i)
    IN
    IF Len(w3.streams) > Len(w2.streams)
    THEN [w3 EXCEPT !.starts[i].pc = "greet"]
    ELSE [w3 EXCEPT !.isTTSPlaying = FALSE, !.starts[i].pc = "done"]
  ELSE [w EXCEPT !.agentConfig = config, !.starts[i].pc = "done"]

\* case 'start', from the return of loadAgentConfig
OnConfig(w, i, config) ==
  LET w1 == [w EXCEPT
               !.agentConfig = config,
               !.turnManager = << NewTurnManager(
                   [ silenceThresholdDb |-> SilenceThresholdDb,
                     silenceDurationMs |-> config.silenceDurationMs,
                     prefixBufferMs |-> config.prefixPaddingMs,
                     minTurnDurationMs |-> MinTurnDurationMs,
                     sampleRate |-> SampleRate ]) >>]
  IN
  IF config.greeting # <<>>
  THEN
    LET w2 == [w1 EXCEPT
                 !.isTTSPlaying = TRUE,
                 !.conversationTranscript =
                    Push(@, [role |-> "agent", text |-> config.greeting]),
                 !.conversationHistory =
                    Push(@, [role |-> "assistant", content |-> config.greeting]),
                 !.metrics.turnsCount = @ + 1]
        w3 == StreamElevenLabsTTS(w2, config.greeting, w2.twilioPlaybackToken, "greeting", i)
    IN
    IF Len(w3.streams) > Len(w2.streams)
    THEN [w3 EXCEPT !.starts[i].pc = "greet"]
    ELSE [w3 EXCEPT !.isTTSPlaying = FALSE, !.starts[i].pc = "done"]
  ELSE [w1 EXCEPT !.starts[i].pc = "done"]

\* Variant: only a processTurn in flight makes the orchestrator busy.
BusyProcessingOnly(w) == w.isProcessingTurn

\* The orchestrator is busy: a completed Turn is not launched.
Busy(w) == w.isProcessingTurn \/ w.isTTSPlaying

\* Variant: a barge-in that leaves isTTSPlaying set.
BargeInKeepsPlaying(w) ==
  ClearCallerAudio([w EXCEPT !.twilioPlaybackToken = @ + 1, !.events.bargeIns = @ + 1])

\* Variant: a barge-in that keeps the playback token.
BargeInSameToken(w) ==
  [ClearCallerAudio([w EXCEPT !.events.bargeIns = @ + 1]) EXCEPT !.isTTSPlaying = FALSE]

\* The barge-in branch of case 'media'.
BargeIn(w) ==
  [ClearCallerAudio([w EXCEPT !.twilioPlaybackToken = @ + 1, !.events.bargeIns = @ + 1])
     EXCEPT !.isTTSPlaying = FALSE]

\* case 'media' for a frame of rmsDb db arriving gap ms after the previous one
OnMedia(w, db, gap) ==
  LET w0 == [w EXCEPT !.now = @ + gap, !.events.framesIn = @ + 1, !.events.lastDb = db]
      pcm == [id |-> w0.events.framesIn, db |-> db, at |-> w0.now]
  IN
  IF w.turnManager = <<>> \/ w.readyState # "OPEN" \/ w.isCallEnded THEN w
  ELSE
    LET w1 == IF w0.isTTSPlaying /\ CalculateRmsDb(pcm) >= BargeInThresholdDb
              THEN BargeIn(w0) ELSE w0
        r == ProcessChunk(w1.turnManager[1], pcm, w1.now)
        w2 == [w1 EXCEPT !.turnManager = << r.tm >>]
    IN
    IF r.result # <<>>
    THEN IF ~Busy(w2)
         THEN ProcessTurn(w2, r.result[1])
         ELSE [w2 EXCEPT !.events.dropped = @ \cup {r.result[1].pcmBuffer}]
    ELSE w2

\* Variant: the barge-in runs before the payload is decoded.
OnMalformedInterrupts(w, frame) ==
  LET w0 == [w EXCEPT !.events.skipped = @ \cup {w.events.framesIn}] IN
  IF frame = "notJson" THEN w0
  ELSE IF w.turnManager = <<>> \/ w.readyState # "OPEN" \/ w.isCallEnded THEN w0
  ELSE IF frame = "noMedia" THEN w0
  ELSE IF w.isTTSPlaying THEN BargeIn(w0)
  ELSE [w0 EXCEPT !.turnManager[1].totalChunksReceived = @ + 1]

\* socket.onmessage for a message it cannot use; every path ends in the
\* catch block.  JSON.parse throws on text that is not JSON.  In case 'media'
\* a frame without `media` throws when `data.media.payload` is evaluated,
\* before decodeUlaw or processChunk is called.  With `media` but no payload,
\* atob(undefined) throws inside decodeUlaw: in the barge-in test before the
\* token changes, else inside processChunk after it has counted the frame.
OnMalformed(w, frame) ==
  LET w0 == [w EXCEPT !.events.skipped = @ \cup {w.events.framesIn}] IN
  IF frame = "notJson" THEN w0
  ELSE IF w.turnManager = <<>> \/ w.readyState # "OPEN" \/ w.isCallEnded THEN w0
  ELSE IF frame = "noMedia" THEN w0
  ELSE IF w.isTTSPlaying THEN w0
  ELSE [w0 EXCEPT !.turnManager[1].totalChunksReceived = @ + 1]

\* finalizeCall up to its POST
FinalizeCall(w) ==
  IF w.callLogId = NULL THEN w
  ELSE [w EXCEPT !.reports = Append(@,
          [ call_log_id |-> w.callLogId,
            duration_ms |-> IF Truthy(w.callStartTime) THEN w.now - w.callStartTime ELSE 0,
            transcript |-> w.conversationTranscript,
            turns_count |-> w.metrics.turnsCount ])]

\* Variant: a stop frame that reports the call without ending it.
OnStopNoLatch(w) == FinalizeCall([w EXCEPT !.events.stops = @ + 1])

\* case 'stop'
OnStop(w) == FinalizeCall([w EXCEPT !.isCallEnded = TRUE, !.events.stops = @ + 1])

\* socket.onclose
OnClose(w) == [w EXCEPT !.readyState = "CLOSED", !.isCallEnded = TRUE]

\* ---------------------------------------------------------------- actions
\* environment: the STT key when it is configured
ConfiguredKeys == {"dg-key"}

\* State of a session when handleWebSocket has returned, in a process whose
\* STT key is one of `keys`.
Session(keys, prompts) ==
  /\ DEEPGRAM_API_KEY \in keys
  /\ systemPrompt \in prompts
  /\ truncatedPrompt = <<>>
  /\ streamSid = NULL
  /\ callSid = NULL
  /\ provider \in UrlProviders
  /\ callLogId \in UrlCallLogIds
  /\ callStartTime = NoTime
  /\ agentConfig = DefaultConfig
  /\ turnManager = <<>>
  /\ twilioPlaybackToken = 0
  /\ isProcessingTurn = FALSE
  /\ isTTSPlaying = FALSE
  /\ isCallEnded = FALSE
  /\ conversationHistory = <<>>
  /\ conversationTranscript = <<>>
  /\ metrics = [turnsCount |-> 0, sttChunks |-> 0, ttsCharacters |-> 0]
  /\ readyState = "OPEN"
  /\ now = 1000
  /\ starts = <<>>
  /\ turns = <<>>
  /\ streams = <<>>
  /\ sent = <<>>
  /\ reports = <<>>
  /\ llmRequests = <<>>
  /\ events = [framesIn |-> 0, lastDb |-> 0, stops |-> 0, bargeIns |-> 0, dropped |-> {},
               skipped |-> {}]

Init == Session(ConfiguredKeys, { <<>> })

StartFrame(data) ==
  /\ readyState = "OPEN"
  /\ \E here \in {World} : Commit(OnStart(here, data))

ConfigResolve(i, config) ==
  /\ starts[i].pc = "config"
  /\ \E here \in {World} : Commit(OnConfig(here, i, config))

MediaFrame(db, gap) ==
  /\ readyState = "OPEN"
  /\ \E here \in {World} : Commit(OnMedia(here, db, gap))

MalformedFrame(frame) ==
  /\ readyState = "OPEN"
  /\ \E here \in {World} : Commit(OnMalformed(here, frame))

StopFrame ==
  /\ readyState = "OPEN"
  /\ \E here \in {World} : Commit(OnStop(here))

SocketClose ==
  /\ readyState = "OPEN"
  /\ \E here \in {World} : Commit(OnClose(here))

STTResolve(t, userText) ==
  /\ turns[t].pc = "stt"
  /\ \E here \in {World} : Commit(AfterSTT(here, t, userText))

STTFail(t) ==
  /\ turns[t].pc = "stt"
  /\ \E here \in {World} : Commit(FinallyTurn(here, t))

LLMFetchResolve(t, ok) ==
  /\ turns[t].pc = "llmFetch"
  /\ \E here \in {World} : Commit(LLMFetched(here, t, ok))

LLMReadResolve(t, delta) ==
  /\ turns[t].pc = "llmRead"
  /\ \E here \in {World} : Commit(LLMReadValue(here, t, delta))

LLMReadDone(t) ==
  /\ turns[t].pc = "llmRead"
  /\ \E here \in {World} : Commit(LLMReadEnd(here, t))

TTSFetchResolve(s, ok) ==
  /\ streams[s].pc = "fetch"
  /\ \E here \in {World} : Commit(TTSFetched(here, s, ok))

TTSReadResolve(s, n) ==
  /\ streams[s].pc = "read"
  /\ \E here \in {World} : Commit(TTSReadValue(here, s, n))

TTSReadDone(s) ==
  /\ streams[s].pc = "read"
  /\ \E here \in {World} : Commit(TTSReadEnd(here, s))

\* The events of a session, with the environment's counters capped.
Step(startFrames, maxStarts, maxFrames, maxStops, maxLLMReads, maxTTSReads) ==
  \/ \E data \in startFrames : Len(starts) < maxStarts /\ StartFrame(data)
  \/ \E i \in DOMAIN starts, data \in AgentRecords : ConfigResolve(i, LoadedConfig(data))
  \/ \E i \in DOMAIN starts : ConfigResolve(i, DefaultConfig)
  \/ \E db \in FrameDbs, gap \in FrameGaps :
        events.framesIn < maxFrames /\ MediaFrame(db, gap)
  \/ events.stops < maxStops /\ StopFrame
  \/ SocketClose
  \/ \E t \in DOMAIN turns, userText \in Transcripts : STTResolve(t, userText)
  \/ \E t \in DOMAIN turns : STTFail(t)
  \/ \E t \in DOMAIN turns, ok \in BOOLEAN : LLMFetchResolve(t, ok)
  \/ \E t \in DOMAIN turns, delta \in Deltas :
        turns[t].llmReads < maxLLMReads /\ LLMReadResolve(t, delta)
  \/ \E t \in DOMAIN turns : LLMReadDone(t)
  \/ \E s \in DOMAIN streams, ok \in BOOLEAN : TTSFetchResolve(s, ok)
  \/ \E s \in DOMAIN streams, n \in TTSChunkSizes :
        streams[s].reads < maxTTSReads /\ TTSReadResolve(s, n)
  \/ \E s \in DOMAIN streams : TTSReadDone(s)

Next == Step(StartFrames, MaxStarts, MaxFrames, MaxStops, MaxLLMReads, MaxTTSReads)

Spec == Init /\ [][Next]_vars

NextTurns ==
  Step(StartFrames, MaxStarts, TurnsMaxFrames, MaxStops, MaxLLMReads, MaxTTSReads)

SpecTurns == Init /\ [][NextTurns]_vars

NextRestart ==
  Step({TwilioStart}, RestartMaxStarts, RestartMaxFrames, MaxStops, MaxLLMReads, MaxTTSReads)

SpecRestart == Init /\ [][NextRestart]_vars

\* A call on which the carrier may send the stop frame twice.
NextHangup ==
  Step(StartFrames, MaxStarts, HangupMaxFrames, HangupMaxStops, MaxLLMReads, MaxTTSReads)

SpecHangup == Init /\ [][NextHangup]_vars

\* The settling of the pending provider awaits of a session.
Providers(maxLLMReads, maxTTSReads) ==
  \/ \E t \in DOMAIN turns, userText \in Transcripts : STTResolve(t, userText)
  \/ \E t \in DOMAIN turns : STTFail(t)
  \/ \E t \in DOMAIN turns, ok \in BOOLEAN : LLMFetchResolve(t, ok)
  \/ \E t \in DOMAIN turns, delta \in Deltas :
        turns[t].llmReads < maxLLMReads /\ LLMReadResolve(t, delta)
  \/ \E t \in DOMAIN turns : LLMReadDone(t)
  \/ \E s \in DOMAIN streams, ok \in BOOLEAN : TTSFetchResolve(s, ok)
  \/ \E s \in DOMAIN streams, n \in TTSChunkSizes :
        streams[s].reads < maxTTSReads /\ TTSReadResolve(s, n)
  \/ \E s \in DOMAIN streams : TTSReadDone(s)

\* A call whose STT provider is down, heard frame by frame: the levels and
\* the arrival times of the frames are free.
NextSegmenter ==
  \/ starts = <<>> /\ StartFrame(TwilioStart)
  \/ \E i \in DOMAIN starts, data \in AgentRecords \cup DefaultVadRecords :
        ConfigResolve(i, LoadedConfig(data))
  \/ \E db \in FrameDbs, gap \in SegmenterGaps :
        events.framesIn < SegmenterMaxFrames /\ MediaFrame(db, gap)
  \/ \E t \in DOMAIN turns : STTFail(t)

SpecSegmenter == Init /\ [][NextSegmenter]_vars

\* A call without greeting whose agent record sets the pre-roll, heard frame
\* by frame while the STT provider is down.
NextPadding ==
  \/ starts = <<>> /\ StartFrame(TwilioStart)
  \/ \E i \in DOMAIN starts, data \in PaddingRecords :
        ConfigResolve(i, LoadedConfig(data))
  \/ \E db \in FrameDbs, gap \in SegmenterGaps :
        events.framesIn < SegmenterMaxFrames /\ MediaFrame(db, gap)
  \/ \E t \in DOMAIN turns : STTFail(t)

SpecPadding == Init /\ [][NextPadding]_vars

\* A call that plays a script: the agent config is loaded, the frames of the
\* script arrive FrameMs apart, then the carrier sends the stop frame.
Scripted(script) ==
  \/ starts = <<>> /\ StartFrame(TwilioStart)
  \/ \E i \in DOMAIN starts, data \in DefaultVadRecords :
        ConfigResolve(i, LoadedConfig(data))
  \/ events.framesIn < Len(script)
        /\ MediaFrame(script[events.framesIn + 1], FrameMs)
  \/ events.framesIn = Len(script) /\ events.stops = 0 /\ StopFrame
  \/ Providers(MaxLLMReads, MaxTTSReads)

NextBlip == Scripted(BlipScript)

SpecBlip == Init /\ [][NextBlip]_vars

NextHappy == Scripted(HappyScript)

SpecHappy == Init /\ [][NextHappy]_vars

\* A session on which a second start frame arrives, of either wire format,
\* while the greeting of the first is requested or playing.
NextReopen ==
  \/ \E data \in StartFrames : Len(starts) < RestartMaxStarts /\ StartFrame(data)
  \/ \E i \in DOMAIN starts, data \in AgentRecords : ConfigResolve(i, LoadedConfig(data))
  \/ \E i \in DOMAIN starts : ConfigResolve(i, DefaultConfig)
  \/ \E db \in FrameDbs, gap \in FrameGaps :
        events.framesIn < ReopenMaxFrames /\ MediaFrame(db, gap)
  \/ events.stops < MaxStops /\ StopFrame
  \/ SocketClose
  \/ \E s \in DOMAIN streams, ok \in BOOLEAN : TTSFetchResolve(s, ok)
  \/ \E s \in DOMAIN streams, n \in TTSChunkSizes :
        streams[s].reads < MaxTTSReads /\ TTSReadResolve(s, n)
  \/ \E s \in DOMAIN streams : TTSReadDone(s)

SpecReopen == Init /\ [][NextReopen]_vars

\* A process started without DEEPGRAM_API_KEY: no STT request is ever
\* pending, so the events are the carrier's and those of the TTS provider.
InitNoKey == Session({NULL}, { <<>> })

NextNoKey ==
  \/ \E data \in StartFrames : Len(starts) < MaxStarts /\ StartFrame(data)
  \/ \E i \in DOMAIN starts, data \in AgentRecords : ConfigResolve(i, LoadedConfig(data))
  \/ \E i \in DOMAIN starts : ConfigResolve(i, DefaultConfig)
  \/ \E db \in FrameDbs, gap \in FrameGaps :
        events.framesIn < TurnsMaxFrames /\ MediaFrame(db, gap)
  \/ events.stops < MaxStops /\ StopFrame
  \/ SocketClose
  \/ \E s \in DOMAIN streams, ok \in BOOLEAN : TTSFetchResolve(s, ok)
  \/ \E s \in DOMAIN streams, n \in TTSChunkSizes :
        streams[s].reads < MaxTTSReads /\ TTSReadResolve(s, n)
  \/ \E s \in DOMAIN streams : TTSReadDone(s)

SpecNoKey == InitNoKey /\ [][NextNoKey]_vars

\* A call whose greeting audio arrives in up to RepackMaxReads body chunks of
\* uneven sizes, with at most RepackMaxFrames media frames from the caller.
NextRepack ==
  \/ starts = <<>> /\ StartFrame(TwilioStart)
  \/ \E i \in DOMAIN starts, data \in AgentRecords : ConfigResolve(i, LoadedConfig(data))
  \/ \E db \in FrameDbs, gap \in FrameGaps :
        events.framesIn < RepackMaxFrames /\ MediaFrame(db, gap)
  \/ events.stops < MaxStops /\ StopFrame
  \/ SocketClose
  \/ \E s \in DOMAIN streams, ok \in BOOLEAN : TTSFetchResolve(s, ok)
  \/ \E s \in DOMAIN streams, n \in RepackChunkSizes :
        streams[s].reads < RepackMaxReads /\ TTSReadResolve(s, n)
  \/ \E s \in DOMAIN streams : TTSReadDone(s)

SpecRepack == Init /\ [][NextRepack]_vars

\* A conversation: the caller speaks DialogTurns times, one frame of voice
\* and one of silence each, 600 ms apart, and the providers answer in their
\* own time; the LLM provider may refuse a request.
NextDialog ==
  \/ starts = <<>> /\ StartFrame(TwilioStart)
  \/ \E i \in DOMAIN starts, data \in AgentRecords : ConfigResolve(i, LoadedConfig(data))
  \/ \E gap \in FrameGaps :
        events.framesIn < Len(DialogScript)
          /\ MediaFrame(DialogScript[events.framesIn + 1], gap)
  \/ events.framesIn = Len(DialogScript) /\ events.stops = 0 /\ StopFrame
  \/ \E t \in DOMAIN turns, userText \in DialogTranscripts : STTResolve(t, userText)
  \/ \E t \in DOMAIN turns, ok \in BOOLEAN : LLMFetchResolve(t, ok)
  \/ \E t \in DOMAIN turns, delta \in Deltas :
        turns[t].llmReads < MaxLLMReads /\ LLMReadResolve(t, delta)
  \/ \E t \in DOMAIN turns : LLMReadDone(t)
  \/ \E s \in DOMAIN streams : TTSFetchResolve(s, TRUE)
  \/ \E s \in DOMAIN streams, n \in TTSChunkSizes :
        streams[s].reads < MaxTTSReads /\ TTSReadResolve(s, n)
  \/ \E s \in DOMAIN streams : TTSReadDone(s)

SpecDialog == Init /\ [][NextDialog]_vars

\* The pending await of turn t settles: the STT or LLM request resolves or
\* fails, or a read of the LLM body resolves.
TurnSettles(t) ==
  /\ t \in DOMAIN turns
  /\ \/ \E userText \in Transcripts : STTResolve(t, userText)
     \/ STTFail(t)
     \/ \E ok \in BOOLEAN : LLMFetchResolve(t, ok)
     \/ \E delta \in Deltas : turns[t].llmReads < MaxLLMReads /\ LLMReadResolve(t, delta)
     \/ LLMReadDone(t)

\* The pending await of TTS stream s settles.
StreamSettles(s) ==
  /\ s \in DOMAIN streams
  /\ \/ \E ok \in BOOLEAN : TTSFetchResolve(s, ok)
     \/ \E n \in TTSChunkSizes : streams[s].reads < MaxTTSReads /\ TTSReadResolve(s, n)
     \/ TTSReadDone(s)

\* the agent record of SpecLive: no greeting, a Turn ends at the first quiet frame
LiveRecords ==
  { [greeting |-> <<>>, silenceDurationMs |-> 0, prefixPaddingMs |-> FrameMs] }

\* a session opened without a provider hint for Telnyx
InitLive == Init /\ provider = "twilio"

\* A call on which the caller speaks, then talks over the agent; the carrier
\* may hang up at any time.  Every pending fetch and body read settles.
NextLive ==
  \/ starts = <<>> /\ StartFrame(TwilioStart)
  \/ \E i \in DOMAIN starts, data \in LiveRecords : ConfigResolve(i, LoadedConfig(data))
  \/ \E gap \in FrameGaps :
        events.framesIn < Len(LiveScript) /\ MediaFrame(LiveScript[events.framesIn + 1], gap)
  \/ events.stops < MaxStops /\ StopFrame
  \/ SocketClose
  \/ \E t \in 1..LiveMaxTurns : TurnSettles(t)
  \/ \E s \in 1..LiveMaxStreams : StreamSettles(s)

SpecLive ==
  /\ InitLive /\ [][NextLive]_vars
  /\ \A t \in 1..LiveMaxTurns : WF_vars(TurnSettles(t))
  /\ \A s \in 1..LiveMaxStreams : WF_vars(StreamSettles(s))

\* A call whose LLM replies arrive in up to StreamMaxLLMReads body chunks.
NextStream ==
  \/ starts = <<>> /\ StartFrame(TwilioStart)
  \/ \E i \in DOMAIN starts, data \in AgentRecords : ConfigResolve(i, LoadedConfig(data))
  \/ \E db \in FrameDbs, gap \in FrameGaps :
        events.framesIn < MaxFrames /\ MediaFrame(db, gap)
  \/ events.stops < MaxStops /\ StopFrame
  \/ SocketClose
  \/ \E t \in DOMAIN turns, userText \in Transcripts : STTResolve(t, userText)
  \/ \E t \in DOMAIN turns : STTFail(t)
  \/ \E t \in DOMAIN turns, ok \in BOOLEAN : LLMFetchResolve(t, ok)
  \/ \E t \in DOMAIN turns, delta \in StreamDeltas :
        turns[t].llmReads < StreamMaxLLMReads /\ LLMReadResolve(t, delta)
  \/ \E t \in DOMAIN turns : LLMReadDone(t)
  \/ \E s \in DOMAIN streams, ok \in BOOLEAN : TTSFetchResolve(s, ok)
  \/ \E s \in DOMAIN streams, n \in TTSChunkSizes :
        streams[s].reads < MaxTTSReads /\ TTSReadResolve(s, n)
  \/ \E s \in DOMAIN streams : TTSReadDone(s)

SpecStream == Init /\ [][NextStream]_vars

\* generateLLMResponseStreaming called with each system prompt: the entry of
\* the function computes truncatedPrompt.
InitPrompt == Session(ConfiguredKeys, Prompts)

TruncatePrompt ==
  /\ truncatedPrompt = <<>>
  /\ truncatedPrompt' = << truncateSystemPrompt(systemPrompt) >>
  /\ UNCHANGED << DEEPGRAM_API_KEY, systemPrompt, streamSid, callSid, provider, callLogId,
                  callStartTime, agentConfig, turnManager, twilioPlaybackToken,
                  isProcessingTurn, isTTSPlaying, isCallEnded, conversationHistory,
                  conversationTranscript, metrics, readyState, now, starts, turns,
                  streams, sent, reports, llmRequests, events >>

NextPrompt == TruncatePrompt

SpecPrompt == InitPrompt /\ [][NextPrompt]_vars

\* A call on which broken frames arrive among the others.
NextMalformed ==
  \/ Next
  \/ \E frame \in MalformedFrames :
        Cardinality(events.skipped) < MaxMalformed /\ MalformedFrame(frame)

SpecMalformed == Init /\ [][NextMalformed]_vars

\* ------------------------------------------------------------- properties
\* processTurn invocations that passed the entry guard and have not returned
ActiveTurns == {t \in DOMAIN turns : turns[t].pc # "done"}

\* indices in `sent` of the media frames cut from the body of TTS stream s
FramesOf(frames, s) ==
  {i \in DOMAIN frames : frames[i].event = "media" /\ frames[i].payload.stream = s}

IsPrefix(a, b) == Len(a) <= Len(b) /\ SubSeq(b, 1, Len(a)) = a

\* a media frame was handled by this step
FrameHandled == events.framesIn' = events.framesIn + 1

\* C1: at any moment at most one invocation of processTurn has passed the
\* entry guard and not yet returned.
C1_SingleFlight == Cardinality(ActiveTurns) <= 1

\* A Turn completed after a barge-in (isTTSPlaying cleared) while the first
\* processTurn still awaits: only isProcessingTurn keeps it out.
C1_Witness ==
  /\ Len(turns) = 1
  /\ turns[1].pc # "done"
  /\ ~isTTSPlaying
  /\ events.bargeIns > 0
  /\ \E b \in events.dropped : \E k \in DOMAIN b : b[k].id > turns[1].pcmBuffer[1].id

\* C2: the media frames on the wire are ordered by the playback token their
\* stream captured: once a stream with a newer token has sent a frame, no
\* stream with an older token sends one.
C2_OneSpeaker ==
  \A i, j \in DOMAIN sent :
    (i < j /\ sent[i].event = "media" /\ sent[j].event = "media")
      => streams[sent[i].payload.stream].currentToken
           <= streams[sent[j].payload.stream].currentToken

\* C3: a step taken while a stream's captured token differs from
\* twilioPlaybackToken sends at most one frame of that stream.
C3_AtMostOneStaleFrame ==
  [][\A s \in DOMAIN streams :
       streams[s].currentToken # twilioPlaybackToken
         => Cardinality(FramesOf(sent', s)) - Cardinality(FramesOf(sent, s)) <= 1]_vars

\* C4: isCallEnded is set by the stop frame and by the socket close, is never
\* reset, and once it is set no frame is sent to the caller.
C4_EndedLatch ==
  [][/\ (events.stops' > 0 \/ readyState' # "OPEN") => isCallEnded'
     /\ isCallEnded => (isCallEnded' /\ sent' = sent)]_vars

\* A stop frame ended the call while a stream awaited its body; the chunk that
\* arrived afterwards was cut into frames and none of them was sent.
C4_Witness ==
  /\ isCallEnded
  /\ readyState = "OPEN"
  /\ \E s \in DOMAIN streams :
       streams[s].pc = "done" /\ streams[s].reads > 0 /\ FramesOf(sent, s) = {}

\* C5: while the call is ended and a processTurn invocation is still
\* suspended, no step appends to conversationHistory or
\* conversationTranscript, sends an STT, LLM or TTS request, or starts a
\* processTurn.
C5_NothingAfterHangup ==
  [][(isCallEnded /\ ActiveTurns # {})
       => /\ conversationHistory' = conversationHistory
          /\ conversationTranscript' = conversationTranscript
          /\ Len(turns') = Len(turns)
          /\ Len(llmRequests') = Len(llmRequests)
          /\ Len(streams') = Len(streams)]_vars

\* C6: every step leaves the previous conversationHistory and
\* conversationTranscript as a prefix of the new ones.
C6_AppendOnly ==
  [][/\ IsPrefix(conversationHistory, conversationHistory')
     /\ IsPrefix(conversationTranscript, conversationTranscript')]_vars

\* A repeated start frame, a barge-in and a hangup have all happened, the
\* processTurn has returned, and both greetings and the user's words are on record.
C6_Witness ==
  /\ Len(starts) = 2
  /\ events.bargeIns > 0
  /\ isCallEnded
  /\ Len(turns) > 0 /\ ActiveTurns = {}
  /\ Len(conversationHistory) >= 3
  /\ Len(conversationTranscript) >= 3

\* C7: twilioPlaybackToken grows by one per processTurn entry and per barge-in
\* and changes in no other way; a greeting stream captures the current token
\* and leaves it as it was.
C7_TokenMonotone ==
  [][/\ twilioPlaybackToken' - twilioPlaybackToken
          = (Len(turns') - Len(turns)) + (events.bargeIns' - events.bargeIns)
     /\ twilioPlaybackToken' >= twilioPlaybackToken
     /\ \A t \in DOMAIN turns' :
          t \notin DOMAIN turns => turns'[t].currentPlaybackToken = twilioPlaybackToken + 1
     /\ \A s \in DOMAIN streams' :
          (s \notin DOMAIN streams /\ streams'[s].kind = "greeting")
            => (streams'[s].currentToken = twilioPlaybackToken
                  /\ twilioPlaybackToken' = twilioPlaybackToken)]_vars

\* The greeting captured token 0, a barge-in and a processTurn entry followed.
C7_Witness ==
  /\ twilioPlaybackToken = 2
  /\ events.bargeIns = 1
  /\ Len(turns) = 1
  /\ \E s \in DOMAIN streams : streams[s].kind = "greeting" /\ streams[s].currentToken = 0

\* C8: a handled frame of at least -35 dB that arrives while a stream with the
\* current token is reading its body increments the token and sends one clear
\* frame.
C8_BargeInHonoured ==
  [][(/\ FrameHandled
      /\ events.lastDb' >= BargeInThresholdDb
      /\ \E s \in DOMAIN streams :
           streams[s].pc = "read" /\ streams[s].currentToken = twilioPlaybackToken)
       => /\ twilioPlaybackToken' = twilioPlaybackToken + 1
          /\ Len(sent') = Len(sent) + 1
          /\ sent'[Len(sent')].event = "clear"]_vars

\* C9: a frame handled while the orchestrator is busy starts no processTurn
\* and changes none of history, transcript, metrics and LLM requests; the
\* audio of a dropped Turn never becomes the argument of a processTurn.
C9_DroppedNotQueued ==
  [][/\ ((isProcessingTurn \/ isTTSPlaying) /\ FrameHandled)
          => UNCHANGED << turns, conversationHistory, conversationTranscript,
                          metrics, llmRequests >>
     /\ \A t \in DOMAIN turns' : turns'[t].pcmBuffer \notin events.dropped']_vars

\* A Turn was dropped, and a later Turn was processed to its end.
C9_Witness ==
  /\ events.dropped # {}
  /\ Len(turns) = 1
  /\ turns[1].pc = "done"
  /\ \E b \in events.dropped : b[1].id < turns[1].pcmBuffer[1].id

\* C10: isProcessingTurn is true exactly while a processTurn invocation has
\* passed the entry guard and not yet returned.
C10_LockMatchesInvocation == isProcessingTurn <=> ActiveTurns # {}

\* A processTurn returned after a hangup and the lock is free.
C10_Witness ==
  /\ ~isProcessingTurn
  /\ isCallEnded
  /\ Len(turns) = 1
  /\ turns[1].pc = "done"

\* ---------------------------------------------------- segmenter properties
\* the step's frame made processChunk return a Turn: the media handler either
\* launched processTurn with it or dropped it
TurnEmitted == Len(turns') > Len(turns) \/ events.dropped' # events.dropped

\* the audio of every Turn processChunk has returned
EmittedBuffers == events.dropped \cup {turns[t].pcmBuffer : t \in DOMAIN turns}

IsVoiced(pcm) == pcm.db >= SilenceThresholdDb

VoicedIn(buffer) == {k \in DOMAIN buffer : IsVoiced(buffer[k])}

\* Idle, with an empty turn buffer and both timers unset
SegmenterIdle(tm) ==
  /\ ~tm.isUserSpeaking
  /\ tm.pcmChunks = <<>>
  /\ tm.silenceStartTime = NoTime
  /\ tm.turnStartTime = NoTime

\* the silence heard so far when an unvoiced frame arrives at time t
SilenceAt(tm, t) ==
  IF tm.silenceStartTime = NoTime THEN 0 ELSE t - tm.silenceStartTime

\* C11: a frame that makes processChunk return a Turn arrives at least
\* minTurnDurationMs (300 ms) after the first voiced frame of the utterance;
\* when the silence has run out earlier than that, no Turn is returned and the
\* segmenter is Idle again.
C11_TurnMinimality ==
  [][FrameHandled =>
       /\ TurnEmitted => now' - turnManager[1].turnStartTime >= MinTurnDurationMs
       /\ (/\ turnManager[1].isUserSpeaking
           /\ events.lastDb' < SilenceThresholdDb
           /\ SilenceAt(turnManager[1], now') >= turnManager[1].config.silenceDurationMs
           /\ now' - turnManager[1].turnStartTime < MinTurnDurationMs)
            => (~TurnEmitted /\ SegmenterIdle(turnManager'[1]))]_vars

\* Two utterances were heard; the first was too short and was discarded, the
\* second became the only Turn.
C11_Witness ==
  /\ turnManager # <<>>
  /\ SegmenterIdle(turnManager[1])
  /\ turnManager[1].totalVoiceChunks = 2
  /\ Cardinality(EmittedBuffers) = 1
  /\ \A b \in EmittedBuffers : Cardinality(VoicedIn(b)) = 1

\* C12: while the blip script plays (5 voiced frames, 40 unvoiced frames,
\* default segmenter settings), processChunk returns no Turn, no STT or LLM
\* request is made, and the report counts the greeting only.
C12_BlipSuppressed ==
  /\ EmittedBuffers = {}
  /\ turns = <<>>
  /\ llmRequests = <<>>
  /\ \A r \in DOMAIN reports : reports[r].turns_count = 1

\* C13: when a frame makes processChunk return a Turn, every frame of the
\* turn buffer heard within the last silenceDurationMs before it is unvoiced.
C13_SilenceBeforeTurn ==
  [][(FrameHandled /\ TurnEmitted) =>
       \A k \in DOMAIN turnManager[1].pcmChunks :
         turnManager[1].pcmChunks[k].at > now' - turnManager[1].config.silenceDurationMs
           => ~IsVoiced(turnManager[1].pcmChunks[k])]_vars

\* C14: a frame makes processChunk return at most one Turn, and only an
\* unvoiced frame received while the user is speaking does; the segmenter is
\* Idle with an empty turn buffer and both timers unset after every frame that
\* returns a Turn or ends an utterance without one, and a frame received in
\* Idle never leaves a timer of silence running.
C14_OneTurnPerUtterance ==
  [][FrameHandled =>
       /\ (Len(turns') - Len(turns))
            + Cardinality(events.dropped' \ events.dropped) <= 1
       /\ TurnEmitted =>
            (turnManager[1].isUserSpeaking /\ events.lastDb' < SilenceThresholdDb)
       /\ (TurnEmitted \/ (turnManager[1].isUserSpeaking /\ ~turnManager'[1].isUserSpeaking))
            => SegmenterIdle(turnManager'[1])
       /\ (~turnManager[1].isUserSpeaking /\ events.lastDb' < SilenceThresholdDb)
            => SegmenterIdle(turnManager'[1])]_vars

\* Two utterances were heard and each became one Turn; the segmenter is Idle.
C14_Witness ==
  /\ turnManager # <<>>
  /\ SegmenterIdle(turnManager[1])
  /\ Cardinality(EmittedBuffers) = 2
  /\ \A b \in EmittedBuffers :
       IsVoiced(b[1]) /\ ~IsVoiced(b[Len(b)])
  /\ \A b, c \in EmittedBuffers :
       b # c => {b[k].id : k \in DOMAIN b} \cap {c[k].id : k \in DOMAIN c} = {}

\* ------------------------------------------------------ pipeline properties
\* C15: while the happy-path script plays (50 unvoiced frames, 100 frames at
\* -20 dB, 40 unvoiced frames, then stop) processChunk returns at most one
\* Turn; when the script has played it has returned exactly one, which holds
\* the whole utterance and went to the one processTurn that was launched; the
\* report counts at least two turns.
C15_HappyPath ==
  /\ Cardinality(EmittedBuffers) <= 1
  /\ Len(turns) <= 1
  /\ events.framesIn = Len(HappyScript) =>
       /\ events.dropped = {}
       /\ Len(turns) = 1
       /\ Cardinality(VoicedIn(turns[1].pcmBuffer)) = HappyVoicedFrames
  /\ \A r \in DOMAIN reports : reports[r].turns_count >= 2

\* The script has played, the stop frame has arrived and the report is out.
C15_Witness ==
  /\ events.framesIn = Len(HappyScript)
  /\ Len(reports) = 1
  /\ reports[1].turns_count = 2
  /\ Len(turns) = 1

\* the config load of every start frame received so far is still pending
ConfigPending == \A i \in DOMAIN starts : starts[i].pc = "config"

\* C16: when a processTurn starts and the agent config has a greeting, the
\* greeting is already in the transcript and its TTS request has been made; no frame handled before the config load completes yields a Turn.
C16_GreetingFirst ==
  [][/\ (Len(turns') > Len(turns) /\ agentConfig.greeting # <<>>) =>
          /\ \E k \in DOMAIN conversationTranscript :
               conversationTranscript[k] = [role |-> "agent", text |-> agentConfig.greeting]
          /\ \E s \in DOMAIN streams : streams[s].kind = "greeting"
     /\ ConfigPending => (~TurnEmitted /\ turns = <<>>)]_vars

\* A user turn is on record after the greeting.
C16_Witness ==
  /\ agentConfig.greeting # <<>>
  /\ Len(turns) = 1
  /\ Len(conversationTranscript) >= 2
  /\ conversationTranscript[1] = [role |-> "agent", text |-> agentConfig.greeting]
  /\ conversationTranscript[2].role = "user"
  /\ streams[1].kind = "greeting"

\* TTS streams requested by this step
NewStreams == {s \in DOMAIN streams' : s \notin DOMAIN streams}

\* C17: a TTS request for the remainder of a reply whose first sentence was
\* started early is made only while the turn's captured token is still the
\* playback token and the call has not ended.  Without a request there is no
\* stream to send a frame of the remainder.
C17_RemainderObeysToken ==
  [][\A s \in NewStreams :
       (streams'[s].kind = "reply" /\ turns[streams'[s].owner].ttsStarted)
         => /\ turns[streams'[s].owner].currentPlaybackToken = twilioPlaybackToken
            /\ streams'[s].currentToken = twilioPlaybackToken
            /\ ~isCallEnded]_vars

\* The first sentence was started early, a barge-in followed, the reply with
\* its tail is on record, and the turn returned without a request for the tail.
C17_Witness ==
  /\ ~isCallEnded
  /\ readyState = "OPEN"
  /\ \E t \in DOMAIN turns :
       /\ turns[t].pc = "done"
       /\ twilioPlaybackToken > turns[t].currentPlaybackToken
       /\ conversationHistory[Len(conversationHistory)]
            = [role |-> "assistant", content |-> DeltaSentence \o DeltaTail]
       /\ \E s \in DOMAIN streams : streams[s].kind = "first" /\ streams[s].owner = t
       /\ \A s \in DOMAIN streams : ~(streams[s].kind = "reply" /\ streams[s].owner = t)

\* a text without a character other than white space
IsBlank(text) == \A k \in DOMAIN text : IsSpace(text[k])

\* C18: when the STT request of a turn returns a blank transcript, the step
\* makes no LLM and no TTS request, appends nothing to history or transcript,
\* sends nothing, ends the processTurn and leaves both processing flags clear.
C18_EmptyTranscript ==
  [][\A t \in DOMAIN turns : \A userText \in Transcripts :
       (IsBlank(userText) /\ STTResolve(t, userText))
         => /\ llmRequests' = llmRequests
            /\ streams' = streams
            /\ conversationHistory' = conversationHistory
            /\ conversationTranscript' = conversationTranscript
            /\ sent' = sent
            /\ turns'[t].pc = "done"
            /\ ~isProcessingTurn'
            /\ ~isTTSPlaying']_vars

\* The first turn got a blank transcript (its audio went through STT, nothing
\* interrupted it, no LLM request exists); the next Turn is being processed.
C18_Witness ==
  /\ Len(turns) = 2
  /\ turns[1].pc = "done"
  /\ turns[2].pc = "stt"
  /\ events.bargeIns = 0
  /\ ~isCallEnded
  /\ metrics.sttChunks = Len(turns[1].pcmBuffer)
  /\ llmRequests = <<>>
  /\ conversationHistory = << [role |-> "assistant", content |-> GreetingText] >>

\* C19: when the LLM stream of an uninterrupted turn ends with a blank reply,
\* no assistant message is recorded, and history and transcript are what they
\* were when the turn started.
C19_EmptyReply ==
  [][\A t \in DOMAIN turns :
       ( /\ IsBlank(turns[t].fullText)
         /\ ~TurnInterrupted(World, turns[t].currentPlaybackToken)
         /\ LLMReadDone(t) )
         => /\ conversationHistory' = turns[t].atEntry.history
            /\ conversationTranscript' = turns[t].atEntry.transcript]_vars

\* C20: once the socket has closed on a call that had started (callStartTime
\* set, a call log to report to) and received no stop frame, isCallEnded is
\* set and the call report has been POSTed.
C20_CloseReports ==
  (readyState = "CLOSED" /\ callStartTime # NoTime /\ callLogId # NULL
     /\ events.stops = 0)
    => (isCallEnded /\ Len(reports) >= 1)

\* ------------------------------------------------------ carrier properties
\* C21: streamSid, the provider tag and the call identifier are set by the
\* first start frame; a later start frame leaves the three unchanged.
C21_StreamSidSetOnce ==
  [][(starts # <<>> /\ Len(starts') > Len(starts))
       => (streamSid' = streamSid /\ provider' = provider /\ callSid' = callSid)]_vars

\* The same session heard through the other carrier: provider tag, key name
\* and the identifiers the start frame supplied are exchanged.
TwinProvider(p) == IF p = "telnyx" THEN "twilio" ELSE "telnyx"

TwinKey(k) == IF k = "stream_id" THEN "streamSid" ELSE "stream_id"

TwinFrame(data) == IF data = TwilioStart THEN TelnyxStart ELSE TwilioStart

TwinSid(sid) ==
  CASE sid = TwilioStart.streamSid -> TelnyxStart.stream_id
    [] sid = TelnyxStart.stream_id -> TwilioStart.streamSid
    [] OTHER -> sid

TwinCall(sid) ==
  CASE sid = TwilioStart.callSid -> TelnyxStart.call_control_id
    [] sid = TelnyxStart.call_control_id -> TwilioStart.callSid
    [] OTHER -> sid

Twin(w) ==
  [w EXCEPT
     !.provider = TwinProvider(@),
     !.streamSid = TwinSid(@),
     !.callSid = TwinCall(@),
     !.starts = [i \in DOMAIN @ |-> [@[i] EXCEPT !.frame = TwinFrame(@)]],
     !.sent = [i \in DOMAIN @ |->
                 [@[i] EXCEPT !.key = TwinKey(@), !.sid = TwinSid(@)]]]

\* configs loadAgentConfig can return
Configs == {DefaultConfig} \cup {LoadedConfig(data) : data \in AgentRecords}

\* Every event enabled in w has the same effect on the twin of w, up to the
\* exchange.
CarrierNeutral(w) ==
  LET v == Twin(w) IN
  /\ \A d \in StartFrames :
       w.readyState = "OPEN" => OnStart(v, TwinFrame(d)) = Twin(OnStart(w, d))
  /\ \A i \in DOMAIN w.starts, c \in Configs :
       w.starts[i].pc = "config" => OnConfig(v, i, c) = Twin(OnConfig(w, i, c))
  /\ \A db \in FrameDbs, gap \in FrameGaps :
       w.readyState = "OPEN" => OnMedia(v, db, gap) = Twin(OnMedia(w, db, gap))
  /\ w.readyState = "OPEN" => OnStop(v) = Twin(OnStop(w))
  /\ w.readyState = "OPEN" => OnClose(v) = Twin(OnClose(w))
  /\ \A t \in DOMAIN w.turns :
       /\ w.turns[t].pc = "stt" =>
            /\ FinallyTurn(v, t) = Twin(FinallyTurn(w, t))
            /\ \A u \in Transcripts : AfterSTT(v, t, u) = Twin(AfterSTT(w, t, u))
       /\ w.turns[t].pc = "llmFetch" =>
            \A ok \in BOOLEAN : LLMFetched(v, t, ok) = Twin(LLMFetched(w, t, ok))
       /\ w.turns[t].pc = "llmRead" =>
            /\ LLMReadEnd(v, t) = Twin(LLMReadEnd(w, t))
            /\ \A delta \in Deltas :
                 LLMReadValue(v, t, delta) = Twin(LLMReadValue(w, t, delta))
  /\ \A s \in DOMAIN w.streams :
       /\ w.streams[s].pc = "fetch" =>
            \A ok \in BOOLEAN : TTSFetched(v, s, ok) = Twin(TTSFetched(w, s, ok))
       /\ w.streams[s].pc = "read" =>
            /\ TTSReadEnd(v, s) = Twin(TTSReadEnd(w, s))
            /\ \A n \in TTSChunkSizes :
                 TTSReadValue(v, s, n) = Twin(TTSReadValue(w, s, n))

\* the key the claim expects after start frame `data`
ExpectedKey(data) ==
  IF data.stream_id # NULL /\ data.streamSid = NULL THEN "stream_id" ELSE "streamSid"

C23_MissingSecret ==
  (DEEPGRAM_API_KEY = NULL /\ starts # <<>>)
    => (readyState # "OPEN" /\ streams = <<>> /\ turns = <<>>)

\* this step makes no provider request and sends nothing to the carrier
NoRequestNoAudio ==
  /\ Len(streams') = Len(streams)
  /\ llmRequests' = llmRequests
  /\ Len(turns') = Len(turns)
  /\ sent' = sent

\* this step ends turn t and leaves both processing flags clear
TurnAbandoned(t) ==
  turns'[t].pc = "done" /\ ~isProcessingTurn' /\ ~isTTSPlaying'

\* C24: the step in which a request of a turn fails (STT, LLM, or a TTS
\* request of the turn) makes no further provider request and sends no audio,
\* and the turn waiting for that request ends with the flags cleared.
C24_ProviderFailure ==
  [][ /\ \A t \in DOMAIN turns :
           (STTFail(t) \/ LLMFetchResolve(t, FALSE))
             => (NoRequestNoAudio /\ TurnAbandoned(t))
      /\ \A s \in DOMAIN streams :
           (streams[s].kind # "greeting" /\ TTSFetchResolve(s, FALSE))
             => /\ NoRequestNoAudio
                /\ turns[streams[s].owner].pc \in {"awaitFirst", "awaitTTS"}
                     => TurnAbandoned(streams[s].owner) ]_vars

\* The session without the record of skipped frames and without the
\* segmenter's count of frames received.
Forget(w) ==
  [w EXCEPT !.events.skipped = {},
            !.turnManager = IF @ = <<>> THEN @
                            ELSE << [@[1] EXCEPT !.totalChunksReceived = 0] >>]

HasMarker(prompt, markers) ==
  \E k \in DOMAIN markers : MarkerIndex(prompt, markers[k]) # 0 - 1

\* the text of `out` from header on, <<>> when the header is absent
BlockFrom(out, header) ==
  IF IndexOf(out, header) = 0 - 1 THEN <<>> ELSE SliceFrom(out, IndexOf(out, header))

\* C27: for a prompt with a script marker the output begins with the script
\* block, which holds the script marker; and when the prompt also has a rules
\* marker, wherever it stands, the output has a rules block after the persona
\* block and the rules marker and its text stand in that rules block, not
\* before it.
C27_PromptReorder ==
  (truncatedPrompt # <<>> /\ HasMarker(systemPrompt, scriptMarkers))
    => LET out == truncatedPrompt[1] IN
       /\ IsPrefix(ScriptHeader, out)
       /\ IndexOf(out, PersonaHeader) > 0
       /\ HasMarker(Slice(out, 0, IndexOf(out, PersonaHeader)), scriptMarkers)
       /\ HasMarker(systemPrompt, rulesMarkers)
            => /\ IndexOf(out, RulesHeader) > IndexOf(out, PersonaHeader)
               /\ HasMarker(SliceFrom(BlockFrom(out, RulesHeader), Len(RulesHeader)),
                            rulesMarkers)
               /\ ~HasMarker(Slice(out, Len(ScriptHeader), IndexOf(out, RulesHeader)),
                             rulesMarkers)

\* ------------------------------------------------------- reply properties
\* the TTS streams the first-sentence callback of turn t has started
FirstStreamsOf(strs, t) ==
  {s \in DOMAIN strs : strs[s].kind = "first" /\ strs[s].owner = t}

\* C28: per turn the first-sentence callback starts at most one TTS stream
\* and, once it has fired, does not fire again; it fires only in a step that
\* reads the LLM stream, before generateLLMResponseStreaming returns; when it
\* fires with the turn's token still current and the call not ended, the step
\* starts exactly one stream, which speaks the first sentence and holds the
\* turn's captured token from then on; under a stale token it starts none.
C28_FirstSentenceOnce ==
  [][\A t \in DOMAIN turns :
       LET new == FirstStreamsOf(streams', t) \ FirstStreamsOf(streams, t)
           fired == ~turns[t].firstSentenceSent /\ turns'[t].firstSentenceSent
           valid == ~TurnInterrupted(World, turns[t].currentPlaybackToken)
       IN
       /\ Cardinality(FirstStreamsOf(streams', t)) <= 1
       /\ turns[t].firstSentenceSent
            => (turns'[t].firstSentenceSent \/ turns'[t].pc = "done")
       /\ (fired \/ new # {})
            => /\ turns[t].pc = "llmRead"
               /\ \E delta \in StreamDeltas : LLMReadResolve(t, delta)
       /\ (fired /\ valid)
            => /\ Cardinality(new) = 1
               /\ Len(streams') = Len(streams) + 1
               /\ turns'[t].ttsStarted
               /\ \A s \in new :
                    /\ streams'[s].text = turns'[t].firstSpokenText
                    /\ streams'[s].currentToken = turns[t].currentPlaybackToken
       /\ ~valid => new = {}
       /\ \A s \in FirstStreamsOf(streams', t) :
            streams'[s].currentToken = turns'[t].currentPlaybackToken]_vars

\* The callback fired on the first chunk of the reply, the second chunk did
\* not fire it again, and a barge-in has since moved the token on: the stream
\* it started still holds the token the turn captured.
C28_Witness ==
  \E t \in DOMAIN turns :
    /\ turns[t].pc = "llmRead"
    /\ turns[t].llmReads = 2
    /\ turns[t].firstSentenceSent
    /\ Cardinality(FirstStreamsOf(streams, t)) = 1
    /\ \A s \in FirstStreamsOf(streams, t) :
         /\ streams[s].currentToken = turns[t].currentPlaybackToken
         /\ streams[s].currentToken < twilioPlaybackToken

\* 0-based indices of the terminators of fullText at which the early start
\* may fire: index at least FirstSentenceMinIndex, trimmed prefix of at
\* least FirstSentenceMinLength characters
QualifyingIndices(fullText) ==
  {i \in 0..(Len(fullText) - 1) :
     /\ fullText[i + 1] \in {".", "!", "?"}
     /\ i >= FirstSentenceMinIndex
     /\ Len(Trim(SubSeq(fullText, 1, i + 1))) >= FirstSentenceMinLength}

FirstQualifyingIndex(fullText) ==
  CHOOSE i \in QualifyingIndices(fullText) :
    \A j \in QualifyingIndices(fullText) : i <= j

\* C29: while the reply accumulates, the early start has fired exactly when
\* the text read so far holds a qualifying terminator, whatever terminators
\* come before it, and the spoken prefix ends at the first qualifying one.
C29_EarlyStartRule ==
  \A t \in DOMAIN turns :
    turns[t].pc = "llmRead" =>
      LET fullText == turns[t].fullText IN
      /\ turns[t].firstSentenceSent <=> QualifyingIndices(fullText) # {}
      /\ turns[t].firstSentenceSent =>
           /\ turns[t].ttsStarted
           /\ turns[t].firstSpokenText =
                Trim(SubSeq(fullText, 1, FirstQualifyingIndex(fullText) + 1))

\* the TTS streams processTurn of turn t has started after the LLM stream
ReplyStreamsOf(strs, t) ==
  {s \in DOMAIN strs : strs[s].kind = "reply" /\ strs[s].owner = t}

\* the reply without the spoken prefix, or the whole reply when it does not
\* begin with what was spoken, surrounding white space removed
Unspoken(reply, spoken) ==
  IF Len(spoken) <= Len(reply) /\ \A k \in 1..Len(spoken) : reply[k] = spoken[k]
  THEN Trim([k \in 1..(Len(reply) - Len(spoken)) |-> reply[k + Len(spoken)]])
  ELSE Trim(reply)

\* C30: a turn makes at most one TTS request after its LLM stream.  Without
\* an early start the request is made in the step that ends the LLM stream
\* and speaks the full reply.  After an early start the request is made only
\* in a step that leaves the first-sentence stream finished, and speaks the
\* reply without the spoken prefix, or the whole reply when it does not start
\* with it.  An uninterrupted turn makes the request exactly when that text
\* is not empty, and ends without a second request when it is.
C30_RemainderRule ==
  [][\A t \in DOMAIN turns :
       LET new == ReplyStreamsOf(streams', t) \ ReplyStreamsOf(streams, t)
           first == FirstStreamsOf(streams', t)
           reply == turns[t].fullText
           rest == Unspoken(reply, turns[t].firstSpokenText)
           valid == turns[t].currentPlaybackToken = twilioPlaybackToken' /\ ~isCallEnded'
           completes == turns[t].pc = "llmRead" /\ LLMReadDone(t)
           resumes == \/ turns[t].pc = "awaitFirst" /\ turns'[t].pc # "awaitFirst"
                      \/ /\ completes /\ turns[t].ttsStarted
                         /\ turns'[t].pc # "awaitFirst"
       IN
       /\ Cardinality(ReplyStreamsOf(streams', t)) <= 1
       /\ new # {} =>
            /\ valid
            /\ IF first = {}
               THEN /\ completes
                    /\ \A s \in new : streams'[s].text = reply
               ELSE /\ resumes
                    /\ \A s \in first : streams'[s].pc = "done"
                    /\ rest # <<>>
                    /\ \A s \in new : streams'[s].text = rest
       /\ (completes /\ valid /\ ~turns[t].ttsStarted /\ ~IsBlank(reply))
            => Cardinality(new) = 1
       /\ (resumes /\ valid /\ rest # <<>>) => Cardinality(new) = 1
       /\ (resumes /\ valid /\ rest = <<>>)
            => new = {} /\ turns'[t].pc = "done"]_vars

\* A turn whose first-sentence stream has played and finished and whose
\* second request, for the rest of the reply, is in flight.
C30_Witness ==
  \E t \in DOMAIN turns :
    /\ turns[t].pc = "awaitTTS"
    /\ turns[t].firstSpokenText # <<>>
    /\ StartsWith(turns[t].fullText, turns[t].firstSpokenText)
    /\ \A s \in FirstStreamsOf(streams, t) : streams[s].pc = "done" /\ streams[s].reads > 0
    /\ \E s \in ReplyStreamsOf(streams, t) :
         /\ streams[s].pc # "done"
         /\ streams[s].text = <<"b">>

\* ------------------------------------------------------- audio properties
\* the payloads of the media frames cut from the body of TTS stream s, in
\* the order they were handed to the socket
PayloadsOf(frames, s) ==
  LET mine(f) == f.event = "media" /\ f.payload.stream = s
      fs == SelectSeq(frames, mine)
  IN [k \in DOMAIN fs |-> fs[k].payload]

\* C31: when the body of a TTS stream ends with the stream's token current,
\* the call not ended and the socket open, the payloads sent for the stream
\* are consecutive pieces of the body that start at its first byte and end
\* at its last; every payload but the last has 160 bytes and the last has
\* between 1 and 160.
C31_Repacketized ==
  [][\A s \in DOMAIN streams :
       (/\ streams[s].pc = "read"
        /\ TTSReadDone(s)
        /\ streams[s].currentToken = twilioPlaybackToken
        /\ ~isCallEnded /\ readyState = "OPEN")
       => LET produced == streams[s].buffer.off + streams[s].buffer.len
              ps == PayloadsOf(sent', s)
          IN
          /\ (produced = 0) <=> (ps = <<>>)
          /\ ps # <<>> =>
               /\ ps[1].off = 0
               /\ ps[Len(ps)].off + ps[Len(ps)].len = produced
               /\ ps[Len(ps)].len \in 1..160
               /\ \A k \in 1..(Len(ps) - 1) :
                    /\ ps[k].len = 160
                    /\ ps[k + 1].off = ps[k].off + ps[k].len]_vars

\* A body of 1 + 400 + 159 bytes has been played to its end: three full
\* payloads and a last one of 80 bytes were sent, none cut at a chunk border.
C31_Witness ==
  \E s \in DOMAIN streams :
    /\ streams[s].pc = "done"
    /\ streams[s].reads = 3
    /\ Len(PayloadsOf(sent, s)) = 4
    /\ PayloadsOf(sent, s)[4] = [stream |-> s, off |-> 480, len |-> 80]
    /\ ~isCallEnded /\ readyState = "OPEN"
    /\ streams[s].currentToken = twilioPlaybackToken

\* ------------------------------------------------- LLM request properties
\* the last n elements of a sequence, all of it when it is shorter
Latest(h, n) ==
  IF Len(h) <= n THEN h ELSE [k \in 1..n |-> h[Len(h) - n + k]]

\* C32: the history part of the messages of an LLM request is the last six
\* messages of the conversation history, as it is before or after the user's
\* transcript is pushed, and the final user message is the transcript.
C32_RequestContext ==
  [][\A t \in DOMAIN turns, userText \in DialogTranscripts :
       (STTResolve(t, userText) /\ Len(llmRequests') = Len(llmRequests) + 1)
       => LET request == llmRequests'[Len(llmRequests')] IN
          /\ request.userMessage = userText
          /\ \/ request.recentHistory = Latest(conversationHistory, 6)
             \/ request.recentHistory = Latest(conversationHistory', 6)]_vars

\* number of user messages in a history
UserMessages(h) == Cardinality({k \in DOMAIN h : h[k].role = "user"})

\* C33: the flow-state block of the request made for the k-th user message
\* of the session uses the first template for k = 1, the second for k = 2
\* and the third, with step number k + 1, for every k >= 3.
C33_FlowState ==
  [][\A t \in DOMAIN turns, userText \in DialogTranscripts :
       (STTResolve(t, userText) /\ Len(llmRequests') = Len(llmRequests) + 1)
       => LET request == llmRequests'[Len(llmRequests')]
              k == UserMessages(conversationHistory')
          IN
          /\ request.flowState # <<>>
          /\ request.flowState[1].paso = k + 1
          /\ request.flowState[1].template =
               (CASE k = 1 -> "PASO 2" [] k = 2 -> "PASO 3" [] OTHER -> "PASO N")]_vars

\* ---------------------------------------------------- Turn content
\* the frame handled by this step, as the segmenter receives it
FrameNow == [id |-> events.framesIn', db |-> events.lastDb', at |-> now']

\* the buffers of the Turns the segmenter emits in this step
EmittedNow ==
  {turns'[t].pcmBuffer : t \in DOMAIN turns' \ DOMAIN turns}
    \cup (events.dropped' \ events.dropped)

\* C34: a step that starts Speaking leaves in the turn buffer a tail of the
\* ring as it was before the frame, of at most prefixBufferMs, followed by
\* the frame; a later frame that does not finalize is appended to the
\* buffer; the Turn emitted by a finalizing frame is the buffer followed by
\* that frame.
C34_TurnContent ==
  [][(FrameHandled /\ turnManager # <<>> /\ turnManager' # <<>>)
       => LET tm == turnManager[1]
              after == turnManager'[1]
          IN
          /\ (~tm.isUserSpeaking /\ after.isUserSpeaking)
               => \E n \in 0..Len(tm.prefixBuffer) :
                    /\ n * FrameMs <= tm.config.prefixBufferMs
                    /\ after.pcmChunks =
                         SubSeq(tm.prefixBuffer, Len(tm.prefixBuffer) - n + 1,
                                Len(tm.prefixBuffer)) \o << FrameNow >>
          /\ (tm.isUserSpeaking /\ after.isUserSpeaking)
               => after.pcmChunks = tm.pcmChunks \o << FrameNow >>
          /\ \A buffer \in EmittedNow :
               buffer = tm.pcmChunks \o << FrameNow >>]_vars

\* ---------------------------------------------------- barge-in properties
\* the TTS streams that have been requested and have not returned
OpenStreams == {s \in DOMAIN streams : streams[s].pc # "done"}

\* C35: a media frame increments the playback token or sends a clear frame
\* only while some TTS stream of the session is requested or playing; a
\* frame handled while a turn waits for STT or for the LLM and no stream is
\* open leaves the turn's token current.
C35_BargeInWhileSpeaking ==
  [][FrameHandled
       => /\ (\/ events.bargeIns' > events.bargeIns
              \/ \E i \in DOMAIN sent' \ DOMAIN sent : sent'[i].event = "clear")
               => OpenStreams # {}
          /\ \A t \in DOMAIN turns :
               (/\ turns[t].pc \in {"stt", "llmFetch", "llmRead"}
                /\ turns[t].currentPlaybackToken = twilioPlaybackToken
                /\ OpenStreams = {})
               => twilioPlaybackToken' = turns[t].currentPlaybackToken]_vars

\* ------------------------------------------------- conversation properties
\* the role in the transcript that corresponds to a role in the history
TranscriptRole(role) == IF role = "assistant" THEN "agent" ELSE role

\* C36: conversationHistory and conversationTranscript have the same length,
\* and their entries at the same index carry the same text under
\* corresponding roles.
C36_Lockstep ==
  /\ Len(conversationHistory) = Len(conversationTranscript)
  /\ \A i \in DOMAIN conversationHistory :
       /\ conversationHistory[i].role \in {"user", "assistant"}
       /\ conversationTranscript[i].role = TranscriptRole(conversationHistory[i].role)
       /\ conversationTranscript[i].text = conversationHistory[i].content

\* The greeting, two transcripts of the caller and two replies are on record.
C36_Witness ==
  /\ Len(conversationHistory) = 5
  /\ conversationHistory[1].role = "assistant"
  /\ conversationHistory[2].role = "user"
  /\ conversationHistory[3].role = "assistant"
  /\ conversationHistory[4].role = "user"
  /\ conversationHistory[4].content # conversationHistory[2].content
  /\ conversationHistory[5].role = "assistant"
  /\ Len(conversationTranscript) = 5

\* ---------------------------------------------------------- call reports
\* C37: at most one report is posted in a session.
C37_ReportOnce == Len(reports) <= 1

\* ------------------------------------------------- segmenter invariants
\* Math.ceil(prefixBufferMs / 20) computed without the constructor's field
RingCapacity(tm) ==
  CHOOSE n \in 0..(tm.config.prefixBufferMs + 1) :
    /\ n * 20 >= tm.config.prefixBufferMs
    /\ (n - 1) * 20 < tm.config.prefixBufferMs

\* C38: the segmenter's ring holds at most ceil(prefixBufferMs / 20) frames,
\* it has counted no more voiced frames than frames, and while it is Idle
\* its turn buffer is empty and both its times are unset; a handled frame
\* decreases neither counter.
C38_SegmenterInvariants ==
  /\ [](turnManager # <<>> =>
          LET tm == turnManager[1] IN
          /\ Len(tm.prefixBuffer) <= RingCapacity(tm)
          /\ tm.totalVoiceChunks <= tm.totalChunksReceived
          /\ ~tm.isUserSpeaking =>
               /\ tm.pcmChunks = <<>>
               /\ tm.turnStartTime = NoTime
               /\ tm.silenceStartTime = NoTime)
  /\ [][(FrameHandled /\ turnManager # <<>> /\ turnManager' # <<>>)
          => /\ turnManager'[1].totalChunksReceived >= turnManager[1].totalChunksReceived
             /\ turnManager'[1].totalVoiceChunks >= turnManager[1].totalVoiceChunks]_vars

\* A segmenter with a ring of two frames that has heard a whole utterance
\* and is Idle again, its ring full.
C38_Witness ==
  /\ turnManager # <<>>
  /\ turnManager[1].config.prefixBufferMs = 2 * FrameMs
  /\ ~turnManager[1].isUserSpeaking
  /\ Len(turnManager[1].prefixBuffer) = 2
  /\ turnManager[1].totalChunksReceived = 4
  /\ turnManager[1].totalVoiceChunks = 2
  /\ Len(turns) = 1

\* ------------------------------------------------------------ termination
\* C39: every processTurn invocation eventually returns, and the step in
\* which it returns leaves isProcessingTurn and isTTSPlaying false.
C39_TurnsEnd ==
  /\ \A t \in 1..LiveMaxTurns :
       (t \in DOMAIN turns /\ turns[t].pc # "done")
         ~> (t \in DOMAIN turns /\ turns[t].pc = "done")
  /\ [][\A t \in DOMAIN turns :
          (turns[t].pc # "done" /\ turns'[t].pc = "done")
            => ~isProcessingTurn' /\ ~isTTSPlaying']_vars

\* The caller talked over the first turn while it was suspended; it has
\* returned, and the Turn completed afterwards is being processed.
C39_Witness ==
  /\ Len(turns) = 2
  /\ turns[1].pc = "done"
  /\ turns[1].currentPlaybackToken < turns[2].currentPlaybackToken - 1
  /\ turns[2].pc = "stt"
  /\ ~isCallEnded

\* ------------------------------------------------- transcript in the request
\* C40: in the messages of one LLM request the current user transcript is
\* the final user message and occurs nowhere else: the history part of the
\* request is a tail of the conversation history as it was before the
\* transcript of this turn was pushed (earlier turns and the greeting).
C40_TranscriptOnce ==
  [][\A t \in DOMAIN turns, userText \in DialogTranscripts :
       (STTResolve(t, userText) /\ Len(llmRequests') = Len(llmRequests) + 1)
       => LET request == llmRequests'[Len(llmRequests')] IN
          /\ request.userMessage = userText
          /\ Len(request.recentHistory) <= Len(conversationHistory)
          /\ request.recentHistory
               = Latest(conversationHistory, Len(request.recentHistory))]_vars

====
